---- MODULE Spec2Model ----
(***************************************************************************)
(* Tool-invocation orchestration of the YouTube summarizer:                *)
(*   - the job queue bridge of the tool server                             *)
(*     (backend/youtube_mcp_server.py) and the transcript executor         *)
(*     (backend/worker.py, backend/mcp_server/worker.py);                  *)
(*   - the agent loop of one turn (backend/main.py, backend/app/worker.py).*)
(* Texts are sequences of characters (small naturals, 0 is a blank) or     *)
(* sequences of tokens; formatted messages are records holding the values  *)
(* that the format string interpolates.                                    *)
(***************************************************************************)
EXTENDS Naturals, Integers, Sequences, FiniteSets, TLC

(* ----------------------------- bounds ---------------------------------- *)
MaxJobs == 2      \* jobs submitted in one behaviour
TickLen == 5      \* time passes in steps of this many time units
MaxRequests == 3  \* requests that the async API receives in one behaviour
MaxTools == 3     \* register_tool calls in one behaviour
MaxSends == 3     \* send_message calls in one behaviour

(* ------------------------- program constants --------------------------- *)
DefaultTimeout == 30
RetryCountdown == 5
MaxRetries == 3
PreviewLen == 100

(* ------------------------------ helpers -------------------------------- *)
Min(a, b) == IF a < b THEN a ELSE b

Max(a, b) == IF a < b THEN b ELSE a

Take(s, n) == SubSeq(s, 1, Min(Len(s), n))

(* --------------------------- video URLs -------------------------------- *)
(* A URL is its host/path form, the run of id characters that follows it   *)
(* (named by vid, idlen characters long) and nothing else of interest.     *)
Urls ==
  { [form |-> "watch",  vid |-> "v1", idlen |-> 11],
    [form |-> "be",     vid |-> "v1", idlen |-> 11],
    [form |-> "shorts", vid |-> "v1", idlen |-> 7],
    [form |-> "other",  vid |-> "v1", idlen |-> 11] }

NoVideo == "none"

extract_video_id(url) ==
  IF url.form \in {"watch", "shorts", "be"} /\ url.idlen >= 11
  THEN url.vid ELSE NoVideo

normalize_video_url(url) ==
  [form |-> "watch", vid |-> extract_video_id(url), idlen |-> 11]

(* ---------------------- the transcript collaborator -------------------- *)
(* What get_transcript may return: a short text and one that is longer     *)
(* than a preview.                                                         *)
ShortText == <<1, 2, 0, 2>>

LongText == [i \in 1..(PreviewLen + 4) |-> IF i % 5 = 0 THEN 0 ELSE 1 + (i % 2)]

Transcripts == {ShortText, LongText}

(* The exception that the n-th run of a task body raises: every run that   *)
(* fails raises an exception of its own.                                   *)
AttemptError(n) ==
  IF n = 1 THEN "error of run 1" ELSE IF n = 2 THEN "error of run 2"
  ELSE IF n = 3 THEN "error of run 3" ELSE IF n = 4 THEN "error of run 4"
  ELSE "error of a later run"

(* ------------------------------ state ---------------------------------- *)
VARIABLES
  jobs,       \* result backend and broker: job id (index) -> job
  call,       \* the tool invocation the tool server is blocked in
  reply,      \* the response of the tool server to its latest request
  turn,       \* one turn of the agent loop: its locals and its position
  contexts,   \* ConversationManager.contexts: conversation id -> context
  added,      \* per conversation id: the messages added since its creation
  made,       \* the Message create_tool_response_message returned last
  returned,   \* what the latest call of a ConversationManager method returned
  api,        \* the async API: its event loop, its requests, the chat tasks
  registry,   \* MCPToolRegistry: tools and functions, and the latest execution
  client      \* InteractiveChatClient: its fields and its latest call

bridgeVars == <<jobs, call, reply>>

convVars == <<contexts, added, made, returned>>

otherVars == <<api, registry, client>>

vars == <<jobs, call, reply, turn, contexts, added, made, returned, api, registry,
          client>>

NoJob == 0
NoText == <<>>
NoExc == "none"

IdleCall == [phase |-> "idle", tool |-> "none", video_url |-> CHOOSE u \in Urls : TRUE,
             job |-> NoJob, elapsed |-> 0]

(* A response: the tool that answers and the values its text or           *)
(* dictionary is made of.                                                  *)
NoReply == [tool |-> "none",
            form |-> "none", text |-> NoText, job |-> NoJob, secs |-> 0,
            exc |-> NoExc, state |-> "none", video_id |-> "none", word_count |-> 0]

READY_STATES == {"SUCCESS", "FAILURE"}

JobIds == 1..Len(jobs)

(* ------------------- generated text and its tokens -------------------- *)
(* A generated text is a sequence of tokens: the two delimiters, braces,   *)
(* comma, a run of whitespace, a run of other text, and the JSON pieces    *)
(* "key": "value" and "arguments": (the value follows).                    *)
OPEN == "<tool_call>"
CLOSE == "</tool_call>"
WS == " "

NameTokens ==
  {"name:get_video_transcript", "name:get_video_info",
   "name:check_job_status", "name:no_such_tool"}

ScalarTokens == NameTokens \cup {"video_url:u1", "video_url:u2", "job_id:j1"}

ARGS == "arguments:"

NameOf(tok) ==
  IF tok = "name:get_video_transcript" THEN "get_video_transcript"
  ELSE IF tok = "name:get_video_info" THEN "get_video_info"
  ELSE IF tok = "name:check_job_status" THEN "check_job_status"
  ELSE "no_such_tool"

Call(nameTok, argTok) == <<OPEN, "{", nameTok, ",", ARGS, "{", argTok, "}", "}", CLOSE>>

(* generations: the message lists handed to the generator so far;         *)
(* executed: the calls made through the tool client so far, with what      *)
(* each call did.                                                          *)
NoTurn == [pc |-> "off"]

(* The conversation manager: the ids in use, the absent context, the       *)
(* absent optional field, and the manager as constructed.                  *)
ConvIds == {"c1", "c2"}

NoContext == [conversation_id |-> "none"]

Absent == "None"

NoMessage == [role |-> "none", content |-> 0, name |-> Absent]

NoReturn == [op |-> "none", id |-> "none", value |-> FALSE]

NoConversations ==
  /\ contexts = [id \in ConvIds |-> NoContext]
  /\ added = [id \in ConvIds |-> <<>>]
  /\ made = NoMessage
  /\ returned = NoReturn

(* The event loop of the async API: free, or held by the request that is  *)
(* running.  No request has arrived, no chat task was sent.               *)
Free == 0

NoRequests == api = [loop |-> Free, handlers |-> <<>>, tasks |-> <<>>]

(* MCPToolRegistry.__init__: no tools, no functions.                      *)
NoFunction == "none"

NoExecution == [tool_name |-> "none", ran |-> NoFunction, raised |-> NoExc]

RegNames == {"get_video_transcript", "web_search"}

(* InteractiveChatClient.__init__: no conversation id, no history.         *)
NoCall == [op |-> "none", message |-> "none", response |-> "none", value |-> Absent]

NewClient ==
  client = [conversation_id |-> Absent, message_history |-> <<>>, sends |-> 0,
            last |-> NoCall]

EmptyRegistry ==
  registry = [tools |-> <<>>, functions |-> [n \in RegNames |-> NoFunction],
              executed |-> NoExecution]

InitBridge ==
  /\ jobs = <<>>
  /\ call = IdleCall
  /\ reply = NoReply
  /\ turn = NoTurn
  /\ NoConversations
  /\ NoRequests
  /\ EmptyRegistry
  /\ NewClient

(* --------------------------- the executor ------------------------------ *)
(* send_task: a fresh job, PENDING in the backend, queued at the broker.   *)
NewJob(nurl) ==
  [url |-> nurl, state |-> "PENDING", text |-> NoText, exc |-> NoExc,
   retries |-> 0, exec |-> "queued", countdown |-> 0,
   nruns |-> 0, lastRaised |-> NoExc]

(* The worker takes a queued job, or a retry whose countdown has run out,  *)
(* and starts the task body.  The backend state is not touched: the        *)
(* transcript worker does not track task starts.                           *)
WorkerStart(j) ==
  /\ j \in JobIds
  /\ \/ jobs[j].exec = "queued"
     \/ jobs[j].exec = "eta" /\ jobs[j].countdown = 0
  /\ jobs' = [jobs EXCEPT ![j].exec = "running", ![j].nruns = @ + 1]
  /\ UNCHANGED <<call, reply, turn, convVars, otherVars>>

(* get_transcript returned transcription: the task returns it.             *)
WorkerSucceed(j, transcription) ==
  /\ j \in JobIds
  /\ jobs[j].exec = "running"
  /\ jobs' = [jobs EXCEPT ![j].exec = "done", ![j].state = "SUCCESS",
                          ![j].text = transcription,
                          ![j].exc = NoExc, ![j].lastRaised = NoExc]
  /\ UNCHANGED <<call, reply, turn, convVars, otherVars>>

(* self.retry(exc=e, countdown=5, max_retries=3): Retry while the request  *)
(* has been retried fewer than max_retries times, else exc itself.         *)
(* Variants of Retry with a seeded fault: the first keeps the error of    *)
(* the first run instead of the one just raised, the second allows one    *)
(* retry too many.                                                        *)
Retry_KeepsFirstError(job, e) ==
  LET kept == IF job.exc = NoExc THEN e ELSE job.exc
  IN IF job.retries < MaxRetries
     THEN [job EXCEPT !.state = "RETRY", !.exc = kept, !.retries = @ + 1,
                      !.exec = "eta", !.countdown = RetryCountdown]
     ELSE [job EXCEPT !.state = "FAILURE", !.exc = kept, !.exec = "done"]

Retry_OneTooMany(job, e) ==
  IF job.retries <= MaxRetries
  THEN [job EXCEPT !.state = "RETRY", !.exc = e, !.retries = @ + 1,
                   !.exec = "eta", !.countdown = RetryCountdown]
  ELSE [job EXCEPT !.state = "FAILURE", !.exc = e, !.exec = "done"]

Retry(job, e) ==
  IF job.retries < MaxRetries
  THEN [job EXCEPT !.state = "RETRY", !.exc = e, !.retries = @ + 1,
                   !.exec = "eta", !.countdown = RetryCountdown]
  ELSE [job EXCEPT !.state = "FAILURE", !.exc = e, !.exec = "done"]

(* get_transcript raised: the except branch of the task.                   *)
WorkerRaise(j) ==
  /\ j \in JobIds
  /\ jobs[j].exec = "running"
  /\ LET e == AttemptError(jobs[j].nruns) IN
       jobs' = [jobs EXCEPT ![j] = [Retry(jobs[j], e) EXCEPT !.lastRaised = e]]
  /\ UNCHANGED <<call, reply, turn, convVars, otherVars>>

(* ------------------------ the job queue bridge ------------------------- *)
Tools == {"get_video_transcript", "get_video_info"}

(* len(transcript.split()): the maximal runs of non-blank characters.      *)
WordCount(s) ==
  Cardinality({i \in 1..Len(s) : s[i] # 0 /\ (i = 1 \/ s[i - 1] = 0)})

(* What task.get(timeout=timeout) does once it stops waiting for job j,    *)
(* and what _get_transcript_from_queue makes of it: the result of a        *)
(* succeeded job is returned; every exception of the wait (the timeout,    *)
(* the exception of a failed task) is replaced by a TimeoutError whose     *)
(* message holds the timeout and the task id.                              *)
(* Variant of QueueOutcome with a seeded fault: the TimeoutError does not *)
(* carry the id of the job.                                               *)
QueueOutcome_WithoutJobId(j, timeout) ==
  IF jobs[j].state = "SUCCESS"
  THEN [NoReply EXCEPT !.form = "return", !.text = jobs[j].text]
  ELSE [NoReply EXCEPT !.form = "raise", !.exc = "TimeoutError",
                       !.secs = timeout]

QueueOutcome(j, timeout) ==
  IF jobs[j].state = "SUCCESS"
  THEN [NoReply EXCEPT !.form = "return", !.text = jobs[j].text]
  ELSE [NoReply EXCEPT !.form = "raise", !.exc = "TimeoutError",
                       !.secs = timeout, !.job = j]

(* get_video_transcript around the bridge: the result, or str(e) of the    *)
(* TimeoutError.                                                           *)
get_video_transcript(q) ==
  IF q.form = "return"
  THEN [NoReply EXCEPT !.form = "Result", !.text = q.text]
  ELSE [NoReply EXCEPT !.form = "Deferred", !.secs = q.secs, !.job = q.job]

(* get_video_info around the bridge: the statistics, or a fixed error      *)
(* dictionary.  (estimated_read_time is left out: nothing reads it.)       *)
get_video_info(q, video_url) ==
  IF q.form = "return"
  THEN [NoReply EXCEPT !.form = "Info", !.video_id = extract_video_id(video_url),
                       !.word_count = WordCount(q.text)]
  ELSE [NoReply EXCEPT !.form = "InfoError"]

ToolOutcome(tool, q, video_url) ==
  IF tool = "get_video_transcript" THEN get_video_transcript(q)
  ELSE get_video_info(q, video_url)

Respond(c, out) == [out EXCEPT !.tool = c.tool]

(* A tool invocation arrives: _get_transcript_from_queue normalises the    *)
(* URL (ValueError leaves the tool, neither tool catches it) and sends     *)
(* the task by name; the handler then blocks in task.get.                  *)
(* Variants of Invoke with a seeded fault: in the first the ValueError of  *)
(* an invalid URL is caught like the exceptions of the wait and the tool   *)
(* answers as for a timeout; in the second a tool waits for the            *)
(* unfinished job of the same video, if there is one, and sends no task.   *)
Invoke_CatchesValueError(tool, video_url) ==
  /\ call.phase = "idle"
  /\ IF extract_video_id(video_url) = NoVideo
     THEN /\ reply' = Respond([IdleCall EXCEPT !.tool = tool, !.video_url = video_url],
                              ToolOutcome(tool,
                                [NoReply EXCEPT !.form = "raise", !.exc = "TimeoutError",
                                                !.secs = DefaultTimeout], video_url))
          /\ UNCHANGED <<jobs, call, turn, convVars, otherVars>>
     ELSE /\ Len(jobs) < MaxJobs
          /\ jobs' = Append(jobs, NewJob(normalize_video_url(video_url)))
          /\ call' = [phase |-> "waiting", tool |-> tool, video_url |-> video_url,
                      job |-> Len(jobs) + 1, elapsed |-> 0]
          /\ reply' = NoReply
          /\ UNCHANGED <<turn, convVars, otherVars>>

Invoke_Deduplicates(tool, video_url) ==
  /\ call.phase = "idle"
  /\ extract_video_id(video_url) # NoVideo
  /\ LET same == {j \in JobIds : /\ jobs[j].url = normalize_video_url(video_url)
                                  /\ jobs[j].state \notin READY_STATES}
     IN IF same # {}
        THEN /\ call' = [phase |-> "waiting", tool |-> tool, video_url |-> video_url,
                         job |-> CHOOSE j \in same : TRUE, elapsed |-> 0]
             /\ reply' = NoReply
             /\ UNCHANGED <<jobs, turn, convVars, otherVars>>
        ELSE /\ Len(jobs) < MaxJobs
             /\ jobs' = Append(jobs, NewJob(normalize_video_url(video_url)))
             /\ call' = [phase |-> "waiting", tool |-> tool, video_url |-> video_url,
                         job |-> Len(jobs) + 1, elapsed |-> 0]
             /\ reply' = NoReply
             /\ UNCHANGED <<turn, convVars, otherVars>>

Invoke(tool, video_url) ==
  /\ call.phase = "idle"
  /\ IF extract_video_id(video_url) = NoVideo
     THEN /\ reply' = Respond([IdleCall EXCEPT !.tool = tool, !.video_url = video_url],
                              [NoReply EXCEPT !.form = "Raised", !.exc = "ValueError"])
          /\ UNCHANGED <<jobs, call, turn, convVars, otherVars>>
     ELSE /\ Len(jobs) < MaxJobs
          /\ jobs' = Append(jobs, NewJob(normalize_video_url(video_url)))
          /\ call' = [phase |-> "waiting", tool |-> tool, video_url |-> video_url,
                      job |-> Len(jobs) + 1, elapsed |-> 0]
          /\ reply' = NoReply
          /\ UNCHANGED <<turn, convVars, otherVars>>

(* task.get stops waiting because the job is ready (its result is          *)
(* returned, its exception is raised) ...                                  *)
GetReady ==
  /\ call.phase = "waiting"
  /\ jobs[call.job].state \in READY_STATES
  /\ reply' = Respond(call, ToolOutcome(call.tool,
                        QueueOutcome(call.job, DefaultTimeout), call.video_url))
  /\ call' = IdleCall
  /\ UNCHANGED <<jobs, turn, convVars, otherVars>>

(* ... or because the timeout has passed.                                  *)
(* Variant of GetTimeout with a seeded fault: the job is revoked when the *)
(* bridge gives up waiting.                                               *)
GetTimeout_Revokes ==
  /\ call.phase = "waiting"
  /\ jobs[call.job].state \notin READY_STATES
  /\ call.elapsed >= DefaultTimeout
  /\ reply' = Respond(call, ToolOutcome(call.tool,
                        QueueOutcome(call.job, DefaultTimeout), call.video_url))
  /\ call' = IdleCall
  /\ jobs' = [jobs EXCEPT ![call.job].exec = "revoked"]
  /\ UNCHANGED <<turn, convVars, otherVars>>

(* Variant of GetTimeout with a seeded fault: task.get is given no        *)
(* timeout, it ends for a ready job only.                                 *)
GetTimeout_NoTimeout ==
  /\ call.phase = "waiting"
  /\ jobs[call.job].state \in READY_STATES
  /\ call.elapsed >= DefaultTimeout
  /\ reply' = Respond(call, ToolOutcome(call.tool,
                        QueueOutcome(call.job, DefaultTimeout), call.video_url))
  /\ call' = IdleCall
  /\ UNCHANGED <<jobs, turn, convVars, otherVars>>

GetTimeout ==
  /\ call.phase = "waiting"
  /\ jobs[call.job].state \notin READY_STATES
  /\ call.elapsed >= DefaultTimeout
  /\ reply' = Respond(call, ToolOutcome(call.tool,
                        QueueOutcome(call.job, DefaultTimeout), call.video_url))
  /\ call' = IdleCall
  /\ UNCHANGED <<jobs, turn, convVars, otherVars>>

(* TickLen units of time pass: for the waiting handler and for the retry   *)
(* countdowns.  task.get returns as soon as the job is ready and raises    *)
(* as soon as the timeout has passed, so time does not pass before that.   *)
Tick ==
  /\ \/ call.phase = "waiting"
     \/ \E j \in JobIds : jobs[j].countdown > 0
  /\ call.phase = "waiting" =>
       /\ jobs[call.job].state \notin READY_STATES
       /\ call.elapsed < DefaultTimeout
  /\ call' = IF call.phase = "waiting"
             THEN [call EXCEPT !.elapsed = Min(@ + TickLen, DefaultTimeout)]
             ELSE call
  /\ jobs' = [j \in JobIds |->
               [jobs[j] EXCEPT !.countdown = Max(@ - TickLen, 0)]]
  /\ UNCHANGED <<reply, turn, convVars, otherVars>>

(* check_job_status(job_id): AsyncResult(job_id).state; an id the backend  *)
(* has no record of reads as PENDING.                                      *)
AsyncResultState(job_id) ==
  IF job_id \in JobIds THEN jobs[job_id].state ELSE "PENDING"

check_job_status(job_id) ==
  LET state == AsyncResultState(job_id) IN
  IF state = "SUCCESS"
  THEN [NoReply EXCEPT !.form = "Finished",
                       !.text = Take(jobs[job_id].text, PreviewLen)]
  ELSE IF state = "FAILURE"
  THEN [NoReply EXCEPT !.form = "Failed", !.exc = jobs[job_id].exc]
  ELSE [NoReply EXCEPT !.form = "Current Status", !.state = state]

(* Variant of CheckJobStatus with a seeded fault: the poll of a finished  *)
(* job forgets its result in the backend.                                 *)
CheckJobStatus_Forgets(job_id) ==
  /\ call.phase = "idle"
  /\ reply' = [check_job_status(job_id) EXCEPT !.tool = "check_job_status",
                                               !.job = job_id]
  /\ jobs' = [j \in JobIds |->
               IF j = job_id /\ jobs[j].state \in READY_STATES
               THEN [jobs[j] EXCEPT !.state = "PENDING", !.text = NoText, !.exc = NoExc]
               ELSE jobs[j]]
  /\ UNCHANGED <<call, turn, convVars, otherVars>>

(* The handlers of the tool server run on one event loop, which a handler  *)
(* blocked in task.get holds.                                              *)
CheckJobStatus(job_id) ==
  /\ call.phase = "idle"
  /\ reply' = [check_job_status(job_id) EXCEPT !.tool = "check_job_status",
                                               !.job = job_id]
  /\ UNCHANGED <<jobs, call, turn, convVars, otherVars>>

NextBridge ==
  \/ \E tool \in Tools, video_url \in Urls : Invoke(tool, video_url)
  \/ GetReady
  \/ GetTimeout
  \/ Tick
  \/ \E j \in 1..MaxJobs : WorkerStart(j)
  \/ \E j \in 1..MaxJobs, transcription \in Transcripts : WorkerSucceed(j, transcription)
  \/ \E j \in 1..MaxJobs : WorkerRaise(j)
  \/ \E job_id \in 1..(MaxJobs + 1) : CheckJobStatus(job_id)

SpecBridge == InitBridge /\ [][NextBridge]_vars

(* The worker keeps consuming its queue, every run of the task body ends   *)
(* (it returns or raises), time passes, and task.get ends its wait: the    *)
(* system does not stop while one of these steps is possible.              *)
Progress ==
  \/ \E j \in 1..MaxJobs : WorkerStart(j) \/ WorkerRaise(j)
  \/ \E j \in 1..MaxJobs, transcription \in Transcripts : WorkerSucceed(j, transcription)
  \/ Tick
  \/ GetReady
  \/ GetTimeout

FairSpecBridge == SpecBridge /\ WF_vars(Progress)

(* ------------------------- the tool-call parser ------------------------ *)
(* re.findall(r'<tool_call>\s*({.*?})\s*</tool_call>', response, DOTALL)   *)
SkipWs(s, i) ==
  LET stops == {k \in i..Len(s) : s[k] # WS}
  IN IF stops = {} THEN Len(s) + 1
     ELSE CHOOSE k \in stops : \A m \in stops : k <= m

(* A closing brace at e ends the group when only whitespace separates it   *)
(* from a closing delimiter.                                               *)
ClosesAt(s, e) ==
  /\ s[e] = "}"
  /\ LET c == SkipWs(s, e + 1) IN c <= Len(s) /\ s[c] = CLOSE

(* The match that starts at i, if there is one: the opening delimiter,     *)
(* whitespace, an opening brace at b, and the nearest closing brace e      *)
(* that ClosesAt (the group is lazy, and "." also matches delimiters).     *)
MatchAt(s, i) ==
  LET b == SkipWs(s, i + 1)
      ends == IF b <= Len(s) /\ s[b] = "{"
              THEN {e \in (b + 1)..Len(s) : ClosesAt(s, e)} ELSE {}
  IN IF s[i] # OPEN \/ ends = {}
     THEN [found |-> FALSE, b |-> 0, e |-> 0, next |-> 0]
     ELSE LET e == CHOOSE x \in ends : \A y \in ends : x <= y
          IN [found |-> TRUE, b |-> b, e |-> e, next |-> SkipWs(s, e + 1) + 1]

RECURSIVE FindAll(_, _)
FindAll(s, from) ==
  LET starts == {i \in from..Len(s) : MatchAt(s, i).found}
  IN IF starts = {} THEN <<>>
     ELSE LET i == CHOOSE x \in starts : \A y \in starts : x <= y
              m == MatchAt(s, i)
          IN <<SubSeq(s, m.b, m.e)>> \o FindAll(s, m.next)

(* json.loads of a span.  Whitespace between the pieces is insignificant;  *)
(* an object is "{" pairs separated by "," "}"; with a repeated key the    *)
(* last pair wins.  A decoded object is its scalar pairs in order and its  *)
(* "arguments" object, if it has one.                                      *)
EmptyDict == [pairs |-> <<>>, hasArgs |-> FALSE, args |-> <<>>]

JSONDecodeError == [ok |-> FALSE, next |-> 0, val |-> EmptyDict]

NoWs(s) == SelectSeq(s, LAMBDA tok : tok # WS)

RECURSIVE ParseObject(_, _), ParseMembers(_, _, _), AfterPair(_, _, _)
ParseObject(t, i) ==
  IF i > Len(t) \/ t[i] # "{" THEN JSONDecodeError
  ELSE IF i + 1 <= Len(t) /\ t[i + 1] = "}"
  THEN [ok |-> TRUE, next |-> i + 2, val |-> EmptyDict]
  ELSE ParseMembers(t, i + 1, EmptyDict)

ParseMembers(t, i, d) ==
  IF i > Len(t) THEN JSONDecodeError
  ELSE IF t[i] \in ScalarTokens
  THEN AfterPair(t, i + 1, [d EXCEPT !.pairs = Append(@, t[i])])
  ELSE IF t[i] = ARGS
  THEN LET v == ParseObject(t, i + 1)
       IN IF v.ok
          THEN AfterPair(t, v.next, [d EXCEPT !.hasArgs = TRUE, !.args = v.val.pairs])
          ELSE JSONDecodeError
  ELSE JSONDecodeError

AfterPair(t, i, d) ==
  IF i > Len(t) THEN JSONDecodeError
  ELSE IF t[i] = "," THEN ParseMembers(t, i + 1, d)
  ELSE IF t[i] = "}" THEN [ok |-> TRUE, next |-> i + 1, val |-> d]
  ELSE JSONDecodeError

json_loads(span) ==
  LET t == NoWs(span)
      r == ParseObject(t, 1)
  IN IF r.ok /\ r.next = Len(t) + 1 THEN r ELSE JSONDecodeError

(* tool_call.get("name"): the value of the last "name" pair, or None.      *)
None == "None"

GetName(d) ==
  LET names == SelectSeq(d.pairs, LAMBDA tok : tok \in NameTokens)
  IN IF names = <<>> THEN None ELSE NameOf(names[Len(names)])

(* tool_call.get("arguments", {})                                          *)
GetArguments(d) == IF d.hasArgs THEN d.args ELSE <<>>

(* parse_tool_calls: the spans that decode, in order; a span that does     *)
(* not decode is skipped.  The standalone server then logs                 *)
(* tool_call['name'], a KeyError when the object has no such key; no       *)
(* except clause of the function catches it.                               *)
(* Variant of ParseSpans with a seeded fault: a call equal to one that   *)
(* was already collected is skipped.                                      *)
RECURSIVE ParseSpans_SkipsRepeats(_, _, _)
ParseSpans_SkipsRepeats(impl, spans, acc) ==
  IF spans = <<>> THEN [exc |-> NoExc, calls |-> acc]
  ELSE LET r == json_loads(Head(spans))
       IN IF ~r.ok \/ (\E i \in 1..Len(acc) : acc[i] = r.val)
          THEN ParseSpans_SkipsRepeats(impl, Tail(spans), acc)
          ELSE IF impl = "server" /\ GetName(r.val) = None
          THEN [exc |-> "KeyError", calls |-> <<>>]
          ELSE ParseSpans_SkipsRepeats(impl, Tail(spans), Append(acc, r.val))

RECURSIVE ParseSpans(_, _, _)
ParseSpans(impl, spans, acc) ==
  IF spans = <<>> THEN [exc |-> NoExc, calls |-> acc]
  ELSE LET r == json_loads(Head(spans))
       IN IF ~r.ok THEN ParseSpans(impl, Tail(spans), acc)
          ELSE IF impl = "server" /\ GetName(r.val) = None
          THEN [exc |-> "KeyError", calls |-> <<>>]
          ELSE ParseSpans(impl, Tail(spans), Append(acc, r.val))

parse_tool_calls(impl, response) == ParseSpans(impl, FindAll(response, 1), <<>>)

(* re.sub(r'<tool_call>.*?</tool_call>', '', final_response, DOTALL)       *)
RECURSIVE StripCalls(_)
StripCalls(s) ==
  LET opens == {i \in 1..Len(s) : s[i] = OPEN /\ \E c \in (i + 1)..Len(s) : s[c] = CLOSE}
  IN IF opens = {} THEN s
     ELSE LET i == CHOOSE x \in opens : \A y \in opens : x <= y
              c == CHOOSE x \in (i + 1)..Len(s) :
                     s[x] = CLOSE /\ \A y \in (i + 1)..(x - 1) : s[y] # CLOSE
          IN SubSeq(s, 1, i - 1) \o StripCalls(SubSeq(s, c + 1, Len(s)))

(* str.strip()                                                             *)
RECURSIVE Strip(_)
Strip(s) ==
  IF s = <<>> THEN s
  ELSE IF Head(s) = WS THEN Strip(Tail(s))
  ELSE IF s[Len(s)] = WS THEN Strip(SubSeq(s, 1, Len(s) - 1))
  ELSE s

(* ---------------------------- the agent loop --------------------------- *)
(* The texts a generation may produce.                                     *)
TranscriptCall == Call("name:get_video_transcript", "video_url:u1")

InfoCall == Call("name:get_video_info", "video_url:u2")

StatusCall == Call("name:check_job_status", "job_id:j1")

UnknownCall == Call("name:no_such_tool", "video_url:u1")

Texts ==
  { <<"text">>,
    <<"text", WS>> \o TranscriptCall,
    TranscriptCall \o <<WS>> \o InfoCall \o <<WS>> \o TranscriptCall,
    UnknownCall \o StatusCall,
    <<OPEN, "{", "name:get_video_info", CLOSE, WS>> \o TranscriptCall,
    <<OPEN, "{", "name:get_video_info", ",", "}", CLOSE>> \o InfoCall,
    <<OPEN, WS, "{", "video_url:u1", "}", WS, CLOSE>>,
    <<WS, "text">> \o StatusCall \o <<"text", OPEN, "{", "name:get_video_info">> }

Histories ==
  { <<[role |-> "user", content |-> <<"text">>]>>,
    <<[role |-> "system", content |-> <<"text">>],
      [role |-> "user", content |-> <<"text">>],
      [role |-> "assistant", content |-> <<"text", WS, "text">>],
      [role |-> "user", content |-> <<"text">>]>> }

Models == {"youtube-agent", "youtube-agent:latest", "llama3"}

Impls == {"server", "worker"}

(* The tools the tool server registers, and the tools the standalone       *)
(* server lists in its prompt.                                             *)
ServerTools ==
  <<"get_video_transcript", "get_video_info", "check_job_status",
    "start_heavy_job", "web_search", "search_transcript">>

get_available_tools ==
  <<"get_video_transcript", "get_video_info", "search_transcript">>

(* How a listing of the tools goes: the client raises after "listed"      *)
(* tools were formatted (none when the server is unreachable or            *)
(* list_tools raises, all of them when closing the client raises), or it   *)
(* does not raise and all tools are formatted.                             *)
Listings ==
  {l \in [raises : BOOLEAN, listed : 0..Len(ServerTools)] :
     ~l.raises => l.listed = Len(ServerTools)}

(* Variant of fetch_mcp_tools with a seeded fault: the except clause      *)
(* returns the tools formatted so far.                                    *)
fetch_mcp_tools_ReturnsCollected(listing) == SubSeq(ServerTools, 1, listing.listed)

(* fetch_mcp_tools: the formatted tools, or [] when anything raised.       *)
fetch_mcp_tools(listing) ==
  LET formatted_tools == SubSeq(ServerTools, 1, listing.listed)
  IN IF listing.raises THEN <<>> ELSE formatted_tools

(* format_tools_prompt: the task prompt, the tools between the <tools>     *)
(* tags and the format prompt.                                             *)
format_tools_prompt(tools) ==
  <<"TASK_PROMPT", "<tools>">> \o tools \o <<"</tools>", "FORMAT_PROMPT">>

(* What call_tool hands back for a tool of the tool server, and the        *)
(* exceptions that it raises.                                              *)
Data(form, job) == [form |-> form, job |-> job, tool |-> "none", exc |-> NoExc]

ToolData(name) ==
  IF name = "get_video_transcript"
  THEN {Data("Result", NoJob), Data("Deferred", 1), Data("Opaque", NoJob)}
  ELSE IF name = "get_video_info"
  THEN {Data("Info", NoJob), Data("InfoError", NoJob)}
  ELSE IF name = "check_job_status" THEN {Data("Finished", 1)}
  ELSE {}

ToolRaises(name) ==
  IF \E i \in 1..Len(ServerTools) : ServerTools[i] = name
  THEN {"ToolError", "ConnectionError"}
  ELSE {"Unknown tool"}

ToolOutcomes(name) ==
  {[raised |-> FALSE, data |-> d, exc |-> NoExc] : d \in ToolData(name)}
  \cup {[raised |-> TRUE, data |-> Data("none", NoJob), exc |-> e] : e \in ToolRaises(name)}

(* execute_mcp_tool: the data of the result, or the error text made from   *)
(* whatever the call raised.                                               *)
execute_mcp_tool(tool_name, o) ==
  IF o.raised
  THEN [form |-> "Error: Could not execute", job |-> NoJob,
        tool |-> tool_name, exc |-> o.exc]
  ELSE o.data

(* json.dumps of one {name, results} pair: TypeError for data that is not  *)
(* JSON serialisable.                                                      *)
Serialisable(result) == result.results.form # "Opaque"

json_dumps(result) == [name |-> result.name, results |-> result.results]

(* The consolidated tool-result text: a header and one delimited JSON      *)
(* text per result, in order.                                              *)
RECURSIVE ToolResponses(_)
ToolResponses(results) ==
  IF results = <<>> THEN <<>>
  ELSE <<"<tool_response>", json_dumps(Head(results)), "</tool_response>">>
       \o ToolResponses(Tail(results))

tool_results_text(results) == <<"TOOL RESULTS">> \o ToolResponses(results)

(* The except clauses around the turn.                                     *)
NoOutcome == [kind |-> "none", status |-> 0, text |-> <<>>, detail |-> NoExc]

chat_except(e) ==
  [kind |-> "failure", status |-> 500, text |-> <<>>, detail |-> e]

process_chat_request_except(e) ==
  [kind |-> "failure", status |-> 200,
   text |-> <<"Error processing request:">>, detail |-> e]

(* Variant of HandleFault with a seeded fault: the except clause catches *)
(* the failure of a generation only.                                      *)
HandleFault_OnlyGeneration(impl, e) ==
  IF e # "GenerationError"
  THEN [kind |-> "unhandled", status |-> 0, text |-> <<>>, detail |-> e]
  ELSE IF impl = "server" THEN chat_except(e) ELSE process_chat_request_except(e)

HandleFault(impl, e) ==
  IF impl = "server" THEN chat_except(e) ELSE process_chat_request_except(e)

Answer(text) == [kind |-> "text", status |-> 200, text |-> text, detail |-> NoExc]

NewTurn(impl, model, history) ==
  [pc |-> "start", impl |-> impl, model |-> model, history |-> history,
   messages |-> <<>>, response |-> <<>>, tool_calls |-> <<>>,
   execution_results |-> <<>>, final_response |-> <<>>, outcome |-> NoOutcome,
   generations |-> <<>>, executed |-> <<>>, discovery |-> "none"]

InitTurn ==
  /\ jobs = <<>>
  /\ call = IdleCall
  /\ reply = NoReply
  /\ \E impl \in Impls, model \in Models, history \in Histories :
       turn = NewTurn(impl, model, history)
  /\ NoConversations
  /\ NoRequests
  /\ EmptyRegistry
  /\ NewClient

Fault(e) == [turn EXCEPT !.pc = "done", !.outcome = HandleFault(turn.impl, e)]

(* chat (standalone server) up to the first generation: the model name is  *)
(* validated inside the try block, whose except clause catches the         *)
(* HTTPException too; then the prompt is composed.  The worker fetches     *)
(* the tools first.                                                        *)
Compose(tools) ==
  [turn EXCEPT !.pc = "generate",
               !.messages = <<[role |-> "system", content |-> format_tools_prompt(tools)]>>
                            \o turn.history]

Begin ==
  /\ turn.pc = "start"
  /\ turn.impl = "server"
  /\ turn' = IF turn.model \notin {"youtube-agent", "youtube-agent:latest"}
             THEN Fault("HTTPException 400")
             ELSE Compose(get_available_tools)
  /\ UNCHANGED <<bridgeVars, convVars, otherVars>>

BeginWorker(listing) ==
  /\ turn.pc = "start"
  /\ turn.impl = "worker"
  /\ turn' = [Compose(fetch_mcp_tools(listing)) EXCEPT
                !.discovery = IF listing.raises THEN "failed" ELSE "listed"]
  /\ UNCHANGED <<bridgeVars, convVars, otherVars>>

(* The first generation and the parse of its text: without tool calls the  *)
(* text is the answer.                                                     *)
(* Variant of AfterFirstGeneration with a seeded fault: a text without   *)
(* parsed calls is cleaned like a final response before it is returned.   *)
AfterFirstGeneration_Cleans(t, text) ==
  LET parsed == parse_tool_calls(t.impl, text)
  IN IF parsed.exc # NoExc
     THEN [t EXCEPT !.pc = "done", !.outcome = HandleFault(t.impl, parsed.exc)]
     ELSE IF parsed.calls = <<>>
     THEN [t EXCEPT !.pc = "done", !.outcome = Answer(Strip(StripCalls(text)))]
     ELSE [t EXCEPT !.pc = "execute", !.tool_calls = parsed.calls]

AfterFirstGeneration(t, text) ==
  LET parsed == parse_tool_calls(t.impl, text)
  IN IF parsed.exc # NoExc
     THEN [t EXCEPT !.pc = "done", !.outcome = HandleFault(t.impl, parsed.exc)]
     ELSE IF parsed.calls = <<>>
     THEN [t EXCEPT !.pc = "done", !.outcome = Answer(text)]
     ELSE [t EXCEPT !.pc = "execute", !.tool_calls = parsed.calls]

FirstGeneration(text) ==
  /\ turn.pc = "generate"
  /\ turn' = AfterFirstGeneration(
               [turn EXCEPT !.generations = Append(@, turn.messages),
                            !.response = text], text)
  /\ UNCHANGED <<bridgeVars, convVars, otherVars>>

(* A generation call raises (first or second generation).                  *)
GenerationFails ==
  /\ turn.pc \in {"generate", "regenerate"}
  /\ turn' = [Fault("GenerationError") EXCEPT
                !.generations = Append(@, turn.messages)]
  /\ UNCHANGED <<bridgeVars, convVars, otherVars>>

(* One pass of the for loop: the next parsed call is executed and its      *)
(* {name, results} pair is appended.                                       *)
NextCall == Len(turn.execution_results) + 1

(* Variants of ExecuteTool with a seeded fault: in the first a failed     *)
(* execution ends the turn, in the second the pair is put in front of     *)
(* the collected ones.                                                    *)
ExecuteTool_Aborts(o) ==
  /\ turn.pc = "execute"
  /\ LET tool_call == turn.tool_calls[NextCall]
         tool_name == GetName(tool_call)
         result == execute_mcp_tool(tool_name, o)
     IN /\ o \in ToolOutcomes(tool_name)
        /\ turn' = IF o.raised
                   THEN Fault(o.exc)
                   ELSE [turn EXCEPT
             !.executed = Append(@, [name |-> tool_name,
                                     arguments |-> GetArguments(tool_call),
                                     outcome |-> o]),
             !.execution_results = Append(@, [name |-> tool_name, results |-> result]),
             !.pc = IF NextCall = Len(turn.tool_calls) THEN "inject" ELSE "execute"]
  /\ UNCHANGED <<bridgeVars, convVars, otherVars>>

ExecuteTool_Prepends(o) ==
  /\ turn.pc = "execute"
  /\ LET tool_call == turn.tool_calls[NextCall]
         tool_name == GetName(tool_call)
         result == execute_mcp_tool(tool_name, o)
     IN /\ o \in ToolOutcomes(tool_name)
        /\ turn' = [turn EXCEPT
             !.executed = Append(@, [name |-> tool_name,
                                     arguments |-> GetArguments(tool_call),
                                     outcome |-> o]),
             !.execution_results = <<[name |-> tool_name, results |-> result]>> \o @,
             !.pc = IF NextCall = Len(turn.tool_calls) THEN "inject" ELSE "execute"]
  /\ UNCHANGED <<bridgeVars, convVars, otherVars>>

ExecuteTool(o) ==
  /\ turn.pc = "execute"
  /\ LET tool_call == turn.tool_calls[NextCall]
         tool_name == GetName(tool_call)
         result == execute_mcp_tool(tool_name, o)
     IN /\ o \in ToolOutcomes(tool_name)
        /\ turn' = [turn EXCEPT
             !.executed = Append(@, [name |-> tool_name,
                                     arguments |-> GetArguments(tool_call),
                                     outcome |-> o]),
             !.execution_results = Append(@, [name |-> tool_name, results |-> result]),
             !.pc = IF NextCall = Len(turn.tool_calls) THEN "inject" ELSE "execute"]
  /\ UNCHANGED <<bridgeVars, convVars, otherVars>>

(* Variant of Inject with a seeded fault: one user-role message is        *)
(* appended per result.                                                   *)
RECURSIVE ResultMessages(_)
ResultMessages(results) ==
  IF results = <<>> THEN <<>>
  ELSE <<[role |-> "user", content |-> tool_results_text(<<Head(results)>>)]>>
       \o ResultMessages(Tail(results))

Inject_OneMessagePerResult ==
  /\ turn.pc = "inject"
  /\ turn' = IF \E i \in 1..Len(turn.execution_results) :
                  ~Serialisable(turn.execution_results[i])
             THEN Fault("TypeError")
             ELSE [turn EXCEPT !.pc = "regenerate",
                     !.messages = @ \o ResultMessages(turn.execution_results)]
  /\ UNCHANGED <<bridgeVars, convVars, otherVars>>

(* Variant of Inject with a seeded fault: the message of the results is   *)
(* added to the conversation as well.                                     *)
Inject_AddsToConversation ==
  /\ turn.pc = "inject"
  /\ turn' = IF \E i \in 1..Len(turn.execution_results) :
                  ~Serialisable(turn.execution_results[i])
             THEN Fault("TypeError")
             ELSE [turn EXCEPT !.pc = "regenerate",
                     !.messages = Append(@, [role |-> "user",
                        content |-> tool_results_text(turn.execution_results)]),
                     !.history = Append(@, [role |-> "user",
                        content |-> tool_results_text(turn.execution_results)])]
  /\ UNCHANGED <<bridgeVars, convVars, otherVars>>

(* The results are serialised into one user-role message that is appended  *)
(* to the messages of this turn.                                           *)
Inject ==
  /\ turn.pc = "inject"
  /\ turn' = IF \E i \in 1..Len(turn.execution_results) :
                  ~Serialisable(turn.execution_results[i])
             THEN Fault("TypeError")
             ELSE [turn EXCEPT !.pc = "regenerate",
                     !.messages = Append(@, [role |-> "user",
                        content |-> tool_results_text(turn.execution_results)])]
  /\ UNCHANGED <<bridgeVars, convVars, otherVars>>

(* The second generation; its text is cleaned of tool calls and returned.  *)
(* Variant of SecondGeneration with a seeded fault: the second text is   *)
(* parsed too and its calls are executed in another round.                *)
SecondGeneration_Chains(text) ==
  /\ turn.pc = "regenerate"
  /\ LET parsed == parse_tool_calls(turn.impl, text)
     IN turn' = IF parsed.exc = NoExc /\ parsed.calls # <<>>
                THEN [turn EXCEPT !.pc = "execute",
                        !.generations = Append(@, turn.messages),
                        !.tool_calls = parsed.calls,
                        !.execution_results = <<>>]
                ELSE [turn EXCEPT !.pc = "done",
                        !.generations = Append(@, turn.messages),
                        !.final_response = text,
                        !.outcome = Answer(Strip(StripCalls(text)))]
  /\ UNCHANGED <<bridgeVars, convVars, otherVars>>

SecondGeneration(text) ==
  /\ turn.pc = "regenerate"
  /\ turn' = [turn EXCEPT !.pc = "done",
                !.generations = Append(@, turn.messages),
                !.final_response = text,
                !.outcome = Answer(Strip(StripCalls(text)))]
  /\ UNCHANGED <<bridgeVars, convVars, otherVars>>

AllToolOutcomes ==
  UNION {ToolOutcomes(n) : n \in {"get_video_transcript", "get_video_info",
                                  "check_job_status", "no_such_tool", None}}

NextTurn ==
  \/ Begin
  \/ \E listing \in Listings : BeginWorker(listing)
  \/ \E text \in Texts : FirstGeneration(text)
  \/ GenerationFails
  \/ \E o \in AllToolOutcomes : ExecuteTool(o)
  \/ Inject
  \/ \E text \in Texts : SecondGeneration(text)

SpecTurn == InitTurn /\ [][NextTurn]_vars

(* ======================= the conversation manager ====================== *)
(* MaxAdds bounds the messages added to the live conversations together;   *)
(* MaxHistory bounds the retention limit max_history of a context, which   *)
(* is a positive number (20 where the code sets it).                       *)
MaxAdds == 4

MaxHistory == 2

InputRoles == {"system", "user", "tool"}

ToolNames == {"get_video_transcript"}

VideoUrls == {"u1"}

VideoTranscripts == {Absent, "t1"}

(* Message(role=..., content=..., name=...): name is None unless given.    *)
Message(role, content, name) == [role |-> role, content |-> content, name |-> name]

(* ConversationContext(conversation_id=...): no messages, no video.        *)
ConversationContext(conversation_id, max_history) ==
  [conversation_id |-> conversation_id, messages |-> <<>>,
   current_video_url |-> Absent, video_transcript |-> Absent,
   max_history |-> max_history]

(* The slice s[-n:] of a list.                                             *)
Last(s, n) ==
  IF n = 0 \/ n >= Len(s) THEN s ELSE SubSeq(s, Len(s) - n + 1, Len(s))

IsSystem(m) == m.role = "system"

NotSystem(m) == m.role # "system"

(* Variants of add_message with a seeded fault: the first trims to the    *)
(* last max_history messages of any role, the second keeps the oldest     *)
(* non-system messages instead of the newest.                             *)
add_message_TrimsAnyRole(ctx, message) ==
  LET appended == Append(ctx.messages, message)
  IN IF Len(appended) > ctx.max_history
     THEN [ctx EXCEPT !.messages = Last(appended, ctx.max_history)]
     ELSE [ctx EXCEPT !.messages = appended]

add_message_KeepsOldest(ctx, message) ==
  LET appended == Append(ctx.messages, message)
      system_messages == SelectSeq(appended, IsSystem)
      recent_messages == Take(SelectSeq(appended, NotSystem), ctx.max_history)
  IN IF Len(appended) > ctx.max_history
     THEN [ctx EXCEPT !.messages = system_messages \o recent_messages]
     ELSE [ctx EXCEPT !.messages = appended]

(* add_message: append, then trim when the list is longer than             *)
(* max_history: the system messages, then the last max_history others.     *)
add_message(ctx, message) ==
  LET appended == Append(ctx.messages, message)
      system_messages == SelectSeq(appended, IsSystem)
      recent_messages == Last(SelectSeq(appended, NotSystem), ctx.max_history)
  IN IF Len(appended) > ctx.max_history
     THEN [ctx EXCEPT !.messages = system_messages \o recent_messages]
     ELSE [ctx EXCEPT !.messages = appended]

RECURSIVE Pairs(_)
Pairs(messages) ==
  IF messages = <<>> THEN <<>>
  ELSE <<[role |-> Head(messages).role, content |-> Head(messages).content]>>
       \o Pairs(Tail(messages))

get_messages_for_model(ctx) == Pairs(ctx.messages)

(* set_current_video: the URL is stored; with a transcript the transcript  *)
(* is stored too and a system message about the video is added.            *)
set_current_video(ctx, video_url, transcript, content) ==
  LET withUrl == [ctx EXCEPT !.current_video_url = video_url]
  IN IF transcript # Absent
     THEN add_message([withUrl EXCEPT !.video_transcript = transcript],
                      Message("system", content, Absent))
     ELSE withUrl

create_tool_response_message(tool_name, tool_result) ==
  Message("tool", tool_result, tool_name)

(* The messages added so far to the live conversations.                    *)
RECURSIVE Adds(_)
Adds(ids) ==
  IF ids = {} THEN 0
  ELSE LET id == CHOOSE x \in ids : TRUE
       IN Len(added[id]) + Adds(ids \ {id})

(* The content of the next message of a conversation: its number.          *)
NextContent(id) == Len(added[id]) + 1

(* create_conversation: a fresh context with the system prompt, stored     *)
(* under the id (in place of a context the id had).                        *)
create_conversation(conversation_id, max_history) ==
  /\ Adds(ConvIds \ {conversation_id}) < MaxAdds
  /\ LET system_prompt == Message("system", 1, Absent)
     IN /\ contexts' = [contexts EXCEPT ![conversation_id] =
             add_message(ConversationContext(conversation_id, max_history),
                         system_prompt)]
        /\ added' = [added EXCEPT ![conversation_id] = <<system_prompt>>]
  /\ UNCHANGED <<bridgeVars, turn, otherVars, made>>

(* What a method that hands out the context of an id returns, and what    *)
(* delete_conversation returns.                                            *)
ContextOf(op, id) == [op |-> op, id |-> id, value |-> TRUE]

Deleted(id, found) == [op |-> "delete_conversation", id |-> id, value |-> found]

(* get_conversation: the context of the id, or None.                       *)
get_conversation(conversation_id) == contexts[conversation_id]

(* list_conversations: the ids that have a context.                        *)
list_conversations == {id \in ConvIds : contexts[id] # NoContext}

CreateConversation(id, k) ==
  /\ contexts[id] # NoContext
  /\ create_conversation(id, k)
  /\ returned' = ContextOf("create_conversation", id)

(* Variant of GetOrCreateConversation with a seeded fault: a context is   *)
(* created also for an id that has one.                                   *)
GetOrCreateConversation_AlwaysCreates(id, k) ==
  /\ create_conversation(id, k)
  /\ returned' = ContextOf("get_or_create_conversation", id)

(* get_or_create_conversation: the context of the id, created first when   *)
(* get_conversation finds none.                                            *)
GetOrCreateConversation(id, k) ==
  /\ IF get_conversation(id) = NoContext
     THEN create_conversation(id, k)
     ELSE UNCHANGED <<bridgeVars, turn, otherVars, contexts, added, made>>
  /\ returned' = ContextOf("get_or_create_conversation", id)

(* delete_conversation: the context of the id is dropped; True when the    *)
(* id had one.                                                             *)
DeleteConversation(id) ==
  /\ IF id \in list_conversations
     THEN /\ contexts' = [contexts EXCEPT ![id] = NoContext]
          /\ added' = [added EXCEPT ![id] = <<>>]
          /\ returned' = Deleted(id, TRUE)
     ELSE /\ returned' = Deleted(id, FALSE)
          /\ UNCHANGED <<contexts, added>>
  /\ UNCHANGED <<bridgeVars, turn, otherVars, made>>

(* Variant of AddMessage with a seeded fault: the contexts share one     *)
(* message list, so that the message lands in every live conversation.    *)
AddMessage_SharedList(id, role, name) ==
  /\ contexts[id] # NoContext
  /\ Adds(ConvIds) < MaxAdds
  /\ name # Absent => role = "tool"
  /\ LET message == Message(role, NextContent(id), name)
     IN /\ contexts' = [c \in ConvIds |->
             IF contexts[c] # NoContext THEN add_message(contexts[c], message)
             ELSE contexts[c]]
        /\ added' = [added EXCEPT ![id] = Append(@, message)]
  /\ returned' = NoReturn
  /\ UNCHANGED <<bridgeVars, turn, otherVars, made>>

AddMessage(id, role, name) ==
  /\ contexts[id] # NoContext
  /\ Adds(ConvIds) < MaxAdds
  /\ name # Absent => role = "tool"
  /\ LET message == Message(role, NextContent(id), name)
     IN /\ contexts' = [contexts EXCEPT ![id] = add_message(@, message)]
        /\ added' = [added EXCEPT ![id] = Append(@, message)]
  /\ returned' = NoReturn
  /\ UNCHANGED <<bridgeVars, turn, otherVars, made>>

SetCurrentVideo(id, video_url, transcript) ==
  /\ contexts[id] # NoContext
  /\ transcript # Absent => Adds(ConvIds) < MaxAdds
  /\ contexts' = [contexts EXCEPT ![id] =
       set_current_video(@, video_url, transcript, NextContent(id))]
  /\ added' = [added EXCEPT ![id] =
       IF transcript # Absent
       THEN Append(@, Message("system", NextContent(id), Absent))
       ELSE @]
  /\ returned' = NoReturn
  /\ UNCHANGED <<bridgeVars, turn, otherVars, made>>

CreateToolResponse(tool_name) ==
  /\ made' = create_tool_response_message(tool_name, 0)
  /\ returned' = NoReturn
  /\ UNCHANGED <<bridgeVars, turn, otherVars, contexts, added>>

InitConv ==
  /\ jobs = <<>>
  /\ call = IdleCall
  /\ reply = NoReply
  /\ turn = NoTurn
  /\ NoConversations
  /\ NoRequests
  /\ EmptyRegistry
  /\ NewClient

NextConv ==
  \/ \E id \in ConvIds, k \in 1..MaxHistory : CreateConversation(id, k)
  \/ \E id \in ConvIds, k \in 1..MaxHistory : GetOrCreateConversation(id, k)
  \/ \E id \in ConvIds : DeleteConversation(id)
  \/ \E id \in ConvIds, role \in InputRoles, name \in ToolNames \cup {Absent} :
       AddMessage(id, role, name)
  \/ \E id \in ConvIds, video_url \in VideoUrls, transcript \in VideoTranscripts :
       SetCurrentVideo(id, video_url, transcript)
  \/ \E tool_name \in ToolNames : CreateToolResponse(tool_name)

SpecConv == InitConv /\ [][NextConv]_vars

(* The video of a conversation: two videos, each with a transcript of its  *)
(* own, which a caller hands over with the URL of the video or not at all. *)
Videos == {"u1", "u2"}

TranscriptOf(video_url) ==
  IF video_url = "u1" THEN "t1" ELSE IF video_url = "u2" THEN "t2" ELSE Absent

NextVideo ==
  \/ \E id \in ConvIds, k \in 1..MaxHistory : GetOrCreateConversation(id, k)
  \/ \E id \in ConvIds : DeleteConversation(id)
  \/ \E id \in ConvIds, video_url \in Videos :
       \E transcript \in {Absent, TranscriptOf(video_url)} :
         SetCurrentVideo(id, video_url, transcript)

SpecVideo == InitConv /\ [][NextVideo]_vars

(* ============================ the async API ============================ *)
(* process_chat_request.delay: a fresh chat task, PENDING in the backend.  *)
NewTask == [state |-> "PENDING", exec |-> "queued", result |-> "none"]

HandlerIds == 1..Len(api.handlers)

TaskIds == 1..Len(api.tasks)

(* health_check: answers without waiting for anything.                     *)
HealthCheck ==
  /\ api.loop = Free
  /\ Len(api.handlers) < MaxRequests
  /\ api' = [api EXCEPT !.handlers = Append(@,
               [kind |-> "health", pc |-> "done", task |-> 0,
                status |-> 200, content |-> "ok"])]
  /\ UNCHANGED <<bridgeVars, turn, convVars, registry, client>>

(* chat up to its loop: the task is sent and the handler goes on to the    *)
(* first test of the loop, still running.                                  *)
Chat ==
  /\ api.loop = Free
  /\ Len(api.handlers) < MaxRequests
  /\ api' = [api EXCEPT !.tasks = Append(@, NewTask),
                        !.handlers = Append(@,
                          [kind |-> "chat", pc |-> "poll", task |-> Len(api.tasks) + 1,
                           status |-> 0, content |-> "none"]),
                        !.loop = Len(api.handlers) + 1]
  /\ UNCHANGED <<bridgeVars, turn, convVars, registry, client>>

(* What chat does after the loop: the result of a successful task in a     *)
(* response, status 500 for a failed one.                                  *)
AfterLoop(handler, task) ==
  IF task.state = "SUCCESS"
  THEN [handler EXCEPT !.pc = "done", !.status = 200, !.content = task.result]
  ELSE [handler EXCEPT !.pc = "done", !.status = 500,
                       !.content = "Worker failed to process task"]

(* Variant of Poll with a seeded fault: the handler sleeps without         *)
(* releasing the event loop.                                               *)
Poll_Blocks(h) ==
  /\ h \in HandlerIds
  /\ api.loop = h
  /\ api.handlers[h].pc = "poll"
  /\ LET task == api.tasks[api.handlers[h].task]
     IN api' = IF task.state \in READY_STATES
               THEN [api EXCEPT !.loop = Free,
                                !.handlers[h] = AfterLoop(@, task)]
               ELSE [api EXCEPT !.handlers[h].pc = "sleep"]
  /\ UNCHANGED <<bridgeVars, turn, convVars, registry, client>>

(* Variant of Poll with a seeded fault: the loop has a second exit, the   *)
(* handler gives up on a task that is not ready.                          *)
Poll_GivesUp(h) ==
  /\ h \in HandlerIds
  /\ api.loop = h
  /\ api.handlers[h].pc = "poll"
  /\ LET task == api.tasks[api.handlers[h].task]
     IN api' = [api EXCEPT !.loop = Free,
                           !.handlers[h] = IF task.state = "PENDING"
                                           THEN [@ EXCEPT !.pc = "sleep"]
                                           ELSE AfterLoop(@, task)]
  /\ UNCHANGED <<bridgeVars, turn, convVars, registry, client>>

(* One test of `while not task.ready()`: the handler awaits                *)
(* asyncio.sleep(0.1), which releases the event loop, or it leaves the     *)
(* loop and responds.                                                      *)
Poll(h) ==
  /\ h \in HandlerIds
  /\ api.loop = h
  /\ api.handlers[h].pc = "poll"
  /\ LET task == api.tasks[api.handlers[h].task]
     IN api' = [api EXCEPT !.loop = Free,
                           !.handlers[h] = IF task.state \in READY_STATES
                                           THEN AfterLoop(@, task)
                                           ELSE [@ EXCEPT !.pc = "sleep"]]
  /\ UNCHANGED <<bridgeVars, turn, convVars, registry, client>>

(* The sleep is over and the event loop, once free, resumes the handler.   *)
Wake(h) ==
  /\ h \in HandlerIds
  /\ api.loop = Free
  /\ api.handlers[h].pc = "sleep"
  /\ api' = [api EXCEPT !.loop = h, !.handlers[h].pc = "poll"]
  /\ UNCHANGED <<bridgeVars, turn, convVars, registry, client>>

(* The chat worker (worker_concurrency=1, task_track_started): it takes    *)
(* the oldest queued task when it runs none.                               *)
ChatWorkerStart(t) ==
  /\ t \in TaskIds
  /\ api.tasks[t].exec = "queued"
  /\ \A u \in TaskIds : api.tasks[u].exec # "running"
  /\ \A u \in 1..(t - 1) : api.tasks[u].exec # "queued"
  /\ api' = [api EXCEPT !.tasks[t].exec = "running", !.tasks[t].state = "STARTED"]
  /\ UNCHANGED <<bridgeVars, turn, convVars, registry, client>>

(* process_chat_request returns: the answer of the turn, or the error      *)
(* text of its except clause.                                              *)
ChatResults == {"answer", "Error processing request"}

ChatWorkerReturn(t, result) ==
  /\ t \in TaskIds
  /\ api.tasks[t].exec = "running"
  /\ api' = [api EXCEPT !.tasks[t] = [state |-> "SUCCESS", exec |-> "done",
                                      result |-> result]]
  /\ UNCHANGED <<bridgeVars, turn, convVars, registry, client>>

(* load_function_calling_model raises: it is called outside the try.       *)
ChatWorkerRaise(t) ==
  /\ t \in TaskIds
  /\ api.tasks[t].exec = "running"
  /\ api' = [api EXCEPT !.tasks[t] = [state |-> "FAILURE", exec |-> "done",
                                      result |-> "none"]]
  /\ UNCHANGED <<bridgeVars, turn, convVars, registry, client>>

NextApi ==
  \/ HealthCheck
  \/ Chat
  \/ \E h \in 1..MaxRequests : Poll(h)
  \/ \E h \in 1..MaxRequests : Wake(h)
  \/ \E t \in 1..MaxRequests : ChatWorkerStart(t)
  \/ \E t \in 1..MaxRequests, result \in ChatResults : ChatWorkerReturn(t, result)
  \/ \E t \in 1..MaxRequests : ChatWorkerRaise(t)

SpecApi == InitConv /\ [][NextApi]_vars

(* The event loop runs every handler that is ready to run: a poll that     *)
(* has started ends, and a handler whose sleep is over is resumed once     *)
(* the loop is free, however often other handlers take the loop.           *)
FairSpecApi ==
  SpecApi /\ \A h \in 1..MaxRequests : WF_vars(Poll(h)) /\ SF_vars(Wake(h))

(* ========================== the tool registry ========================== *)
Schemas == {"schema 1", "schema 2"}

Functions == {"function 1", "function 2"}

MCPTool(name, description, parameters) ==
  [type |-> "function",
   function |-> [name |-> name, description |-> description,
                 parameters |-> parameters]]

register_tool(r, name, description, parameters, function) ==
  [r EXCEPT !.tools = Append(@, MCPTool(name, description, parameters)),
            !.functions[name] = function]

get_tools == registry.tools

(* execute_tool: ValueError for a name without a function, else the        *)
(* function registered under the name is run.                              *)
execute_tool(r, tool_name) ==
  IF tool_name \notin RegNames \/ r.functions[tool_name] = NoFunction
  THEN [tool_name |-> tool_name, ran |-> NoFunction, raised |-> "ValueError"]
  ELSE [tool_name |-> tool_name, ran |-> r.functions[tool_name], raised |-> NoExc]

RegisterTool(name, parameters, function) ==
  /\ Len(registry.tools) < MaxTools
  /\ registry' = register_tool(registry, name, "description", parameters, function)
  /\ UNCHANGED <<bridgeVars, turn, convVars, api, client>>

ExecuteRegistered(tool_name) ==
  /\ registry' = [registry EXCEPT !.executed = execute_tool(registry, tool_name)]
  /\ UNCHANGED <<bridgeVars, turn, convVars, api, client>>

NextRegistry ==
  \/ \E name \in RegNames, parameters \in Schemas, function \in Functions :
       RegisterTool(name, parameters, function)
  \/ \E tool_name \in RegNames \cup {"no_such_tool"} : ExecuteRegistered(tool_name)

SpecRegistry == InitConv /\ [][NextRegistry]_vars

(* ================ the agent loop through the tool server =============== *)
(* The worker's turn with its tools executed by the tool server: the       *)
(* arguments that the model wrote name a video URL or a job.               *)
UrlOf(args) ==
  IF \E i \in 1..Len(args) : args[i] = "video_url:u1"
  THEN [form |-> "watch", vid |-> "v1", idlen |-> 11]
  ELSE [form |-> "other", vid |-> "v1", idlen |-> 11]

JobOf(args) == IF \E i \in 1..Len(args) : args[i] = "job_id:j1" THEN 1 ELSE MaxJobs + 1

(* client.call_tool reaches the handler of the tool.                       *)
CallTool ==
  /\ turn.pc = "execute"
  /\ reply = NoReply
  /\ LET tool_call == turn.tool_calls[NextCall]
         tool_name == GetName(tool_call)
     IN \/ /\ tool_name \in Tools
           /\ Invoke(tool_name, UrlOf(GetArguments(tool_call)))
        \/ /\ tool_name = "check_job_status"
           /\ CheckJobStatus(JobOf(GetArguments(tool_call)))

(* What call_tool makes of the answer of the tool server: an exception     *)
(* that left the tool is raised, anything else is the data of the result.  *)
CallOutcome(r) ==
  IF r.form = "Raised"
  THEN [raised |-> TRUE, data |-> Data("none", NoJob), exc |-> "ToolError"]
  ELSE [raised |-> FALSE, data |-> Data(r.form, r.job), exc |-> NoExc]

(* Variant of ToolReturns with a seeded fault: the call is not awaited,    *)
(* the loop goes on while the tool server is still waiting for the job.    *)
ToolReturns_NotAwaited ==
  /\ turn.pc = "execute"
  /\ call.phase = "waiting"
  /\ LET tool_call == turn.tool_calls[NextCall]
         tool_name == GetName(tool_call)
         o == CallOutcome([NoReply EXCEPT !.form = "Deferred", !.job = call.job])
         result == execute_mcp_tool(tool_name, o)
     IN turn' = [turn EXCEPT
          !.executed = Append(@, [name |-> tool_name,
                                  arguments |-> GetArguments(tool_call),
                                  outcome |-> o]),
          !.execution_results = Append(@, [name |-> tool_name, results |-> result]),
          !.pc = IF NextCall = Len(turn.tool_calls) THEN "inject" ELSE "execute"]
  /\ UNCHANGED <<jobs, call, reply, convVars, otherVars>>

(* The answer arrives: the pass of the for loop goes on as in ExecuteTool. *)
ToolReturns ==
  /\ turn.pc = "execute"
  /\ call.phase = "idle"
  /\ reply # NoReply
  /\ LET tool_call == turn.tool_calls[NextCall]
         tool_name == GetName(tool_call)
         o == CallOutcome(reply)
         result == execute_mcp_tool(tool_name, o)
     IN turn' = [turn EXCEPT
          !.executed = Append(@, [name |-> tool_name,
                                  arguments |-> GetArguments(tool_call),
                                  outcome |-> o]),
          !.execution_results = Append(@, [name |-> tool_name, results |-> result]),
          !.pc = IF NextCall = Len(turn.tool_calls) THEN "inject" ELSE "execute"]
  /\ reply' = NoReply
  /\ UNCHANGED <<jobs, call, convVars, otherVars>>

(* call_tool raises without an answer of a handler: the server is not      *)
(* reached, or it knows no tool of that name.                              *)
CallRaises(o) ==
  /\ o.raised
  /\ call.phase = "idle"
  /\ reply = NoReply
  /\ ExecuteTool(o)

(* The worker is not told the model that the request names.                *)
InitAgent == InitTurn /\ turn.impl = "worker" /\ turn.model = "youtube-agent"

NextAgent ==
  \/ \E listing \in Listings : BeginWorker(listing)
  \/ \E text \in Texts : FirstGeneration(text)
  \/ GenerationFails
  \/ CallTool
  \/ ToolReturns
  \/ \E o \in AllToolOutcomes : CallRaises(o)
  \/ Inject
  \/ \E text \in Texts : SecondGeneration(text)
  \/ GetReady
  \/ GetTimeout
  \/ Tick
  \/ \E j \in 1..MaxJobs : WorkerStart(j)
  \/ \E j \in 1..MaxJobs, transcription \in Transcripts : WorkerSucceed(j, transcription)
  \/ \E j \in 1..MaxJobs : WorkerRaise(j)

SpecAgent == InitAgent /\ [][NextAgent]_vars

(* Every generation call returns or raises, the turn goes on when it can,  *)
(* time passes and task.get ends its wait.  Nothing is assumed of the      *)
(* transcript worker: a job may stay queued or running for ever.           *)
TurnProgress ==
  \/ \E listing \in Listings : BeginWorker(listing)
  \/ \E text \in Texts : FirstGeneration(text) \/ SecondGeneration(text)
  \/ GenerationFails
  \/ CallTool
  \/ ToolReturns
  \/ \E o \in AllToolOutcomes : CallRaises(o)
  \/ Inject
  \/ GetReady
  \/ GetTimeout
  \/ Tick

FairSpecAgent == SpecAgent /\ WF_vars(TurnProgress)

(* ======================= the interactive client ======================= *)
UserMessages == {"question 1", "question 2"}

(* What requests.post and the reading of its response come to: a status    *)
(* 200 whose JSON holds the content of a message (and maybe a              *)
(* conversation id), a status 200 whose body does not, another status, a   *)
(* timeout, any other exception.                                           *)
Responses ==
  [kind : {"200"}, content : {"answer 1", "answer 2"}, conversation_id : {None, "session 1"}]
  \cup [kind : {"200 without message", "500", "Timeout", "ConnectionError"},
        content : {"none"}, conversation_id : {None}]

Pop(list) == SubSeq(list, 1, Len(list) - 1)

(* Variant of send_message with a seeded fault: the user message of a      *)
(* request that timed out stays in the history.                            *)
send_message_KeepsOnTimeout(c, message, response) ==
  LET appended == Append(c.message_history, [role |-> "user", content |-> message])
  IN IF response.kind = "200"
     THEN [c EXCEPT !.conversation_id = response.conversation_id,
                    !.message_history = Append(appended,
                       [role |-> "assistant", content |-> response.content]),
                    !.last = [op |-> "send_message", message |-> message,
                              response |-> response.kind, value |-> response.content]]
     ELSE [c EXCEPT !.message_history = IF response.kind = "Timeout" THEN appended
                                        ELSE Pop(appended),
                    !.last = [op |-> "send_message", message |-> message,
                              response |-> response.kind, value |-> None]]

(* send_message: the user message is appended first; it is followed by     *)
(* the reply, or popped again in the else branch and in both except        *)
(* clauses.                                                                *)
send_message(c, message, response) ==
  LET appended == Append(c.message_history, [role |-> "user", content |-> message])
  IN IF response.kind = "200"
     THEN [c EXCEPT !.conversation_id = response.conversation_id,
                    !.message_history = Append(appended,
                       [role |-> "assistant", content |-> response.content]),
                    !.last = [op |-> "send_message", message |-> message,
                              response |-> response.kind, value |-> response.content]]
     ELSE [c EXCEPT !.message_history = Pop(appended),
                    !.last = [op |-> "send_message", message |-> message,
                              response |-> response.kind, value |-> None]]

start_new_session(c) ==
  [c EXCEPT !.conversation_id = None, !.message_history = <<>>,
            !.last = [NoCall EXCEPT !.op = "start_new_session"]]

SendMessage(message, response) ==
  /\ client.sends < MaxSends
  /\ client' = [send_message(client, message, response) EXCEPT !.sends = @ + 1]
  /\ UNCHANGED <<bridgeVars, turn, convVars, api, registry>>

StartNewSession ==
  /\ client' = start_new_session(client)
  /\ UNCHANGED <<bridgeVars, turn, convVars, api, registry>>

NextClient ==
  \/ \E message \in UserMessages, response \in Responses : SendMessage(message, response)
  \/ StartNewSession

SpecClient == InitConv /\ [][NextClient]_vars

(* ======================= properties of the bridge ====================== *)
Ready(j) == j \in JobIds /\ jobs[j].state \in READY_STATES

(* The handler that waited for job j has answered while j was unfinished.  *)
LeftRunning(j) ==
  /\ j \in JobIds
  /\ ~Ready(j)
  /\ ~(call.phase = "waiting" /\ call.job = j)

(* The step in which the blocked handler of tool answers.                  *)
Answers(tool) ==
  call.phase = "waiting" /\ call.tool = tool /\ call'.phase = "idle"

(* The step in which check_job_status(j) answers.                          *)
Polls(j) ==
  call.phase = "idle" /\ reply' # reply
  /\ reply'.tool = "check_job_status" /\ reply'.job = j

(* C1: a get_video_transcript invocation with a valid URL answers with     *)
(* the result text of its job when the job has succeeded by the time the   *)
(* wait ends, and with the deferred message carrying the id of its job     *)
(* when the job is unfinished as the 30 time units of the wait budget run  *)
(* out; the id keeps naming that job (its video never changes, no id is    *)
(* dropped), and check_job_status of the id reads the state of that job.   *)
C1_ResultOrDeferred ==
  [][ /\ Answers("get_video_transcript") =>
           LET j == call.job IN
           /\ jobs[j].state = "SUCCESS" =>
                /\ reply'.form = "Result"
                /\ reply'.text = jobs[j].text
                /\ reply'.text \in Transcripts
           /\ ~Ready(j) =>
                /\ call.elapsed >= 30
                /\ reply'.form = "Deferred"
                /\ reply'.job = j
      /\ \A k \in JobIds :
           /\ k \in 1..Len(jobs') /\ jobs'[k].url = jobs[k].url
           /\ Polls(k) =>
                (reply'.form = "Current Status") = ~Ready(k)
     ]_vars

C1_Witness ==
  /\ reply.tool = "get_video_transcript"
  /\ reply.form = "Deferred"
  /\ reply.job \in JobIds
  /\ jobs[reply.job].state = "SUCCESS"

(* C2: a job whose foreground wait ended without a result is not           *)
(* cancelled: it goes on and reaches a terminal state, SUCCESS or FAILURE. *)
C2_DeferredJobSettles ==
  []<>(\A j \in 1..MaxJobs : ~LeftRunning(j))

C2_Witness ==
  \E j \in JobIds :
    /\ jobs[j].state = "SUCCESS"
    /\ jobs[j].nruns > 1
    /\ reply.tool = "check_job_status" /\ reply.job = j /\ reply.form = "Finished"

(* C3: check_job_status of a job that has succeeded answers in the         *)
(* succeeded form with the first 100 characters (at most) of the result;   *)
(* of a job that has failed, which takes a raise in every run until the    *)
(* retries are used up, in the failed form with the exception of the last  *)
(* run.                                                                    *)
C3_PollAfterFinish ==
  [][ \A j \in JobIds : Polls(j) =>
        /\ jobs[j].state = "SUCCESS" =>
             LET result == jobs[j].text
                 n == IF Len(result) < 100 THEN Len(result) ELSE 100
             IN /\ reply'.form = "Finished"
                /\ reply'.text = [i \in 1..n |-> result[i]]
        /\ jobs[j].state = "FAILURE" =>
             /\ reply'.form = "Failed"
             /\ jobs[j].nruns = 4
             /\ reply'.exc = AttemptError(4)
             /\ reply'.exc = jobs[j].lastRaised
     ]_vars

C3_Witness ==
  /\ reply.tool = "check_job_status"
  /\ reply.form = "Failed"
  /\ reply.exc = AttemptError(4)

(* C4: a run of the task body that raises is followed by a retry after a   *)
(* countdown of 5, at most 3 times: the body of a job runs at most 4       *)
(* times, the raise of the 4th run settles the job as FAILURE, and a       *)
(* settled job is never run again.                                         *)
C4_BoundedRetries ==
  [][ \A j \in JobIds :
        /\ jobs'[j].nruns <= 4
        /\ jobs'[j].retries <= 3
        /\ jobs'[j].state = "FAILURE" => jobs'[j].nruns = 4
        /\ (jobs[j].exec = "running" /\ jobs'[j].exec # "running"
              /\ jobs'[j].state # "SUCCESS") =>
             IF jobs[j].nruns < 4
             THEN /\ jobs'[j].state = "RETRY" /\ jobs'[j].exec = "eta"
                  /\ jobs'[j].countdown = 5
             ELSE jobs'[j].state = "FAILURE" /\ jobs'[j].exec = "done"
        /\ jobs'[j].nruns > jobs[j].nruns =>
             /\ ~Ready(j)
             /\ jobs[j].countdown = 0
        /\ Ready(j) => jobs'[j] = jobs[j]
     ]_vars

C4_Witness ==
  \E j \in JobIds :
    jobs[j].state = "FAILURE" /\ jobs[j].nruns = 4 /\ jobs[j].retries = 3

(* C7: whichever tool offloaded the work, get_video_transcript or          *)
(* get_video_info, a wait that times out is answered with a text that      *)
(* holds the id of the submitted job.                                      *)
C7_TimeoutCarriesJobId ==
  [][ \A tool \in Tools :
        (Answers(tool) /\ ~Ready(call.job)) => reply'.job = call.job
     ]_vars

(* C23: what the tool server answers never tells of a retry: a status     *)
(* answer names a pending or a running job, or it is one of the terminal   *)
(* answers; the answer of a foreground wait names no job state.            *)
C23_RetriesInvisible ==
  /\ (reply.tool = "check_job_status" /\ reply.form = "Current Status") =>
       reply.state \in {"PENDING", "STARTED"}
  /\ reply.tool \in Tools => reply.state = "none"

(* C24: check_job_status answers in one of four ways: pending, running,    *)
(* succeeded (exactly when the job has succeeded, with at most the first   *)
(* 100 characters of the result) or failed (exactly when the job has       *)
(* failed, with the reason).                                               *)
C24_FourTextualStates ==
  [][ \A job_id \in 1..(MaxJobs + 1) : Polls(job_id) =>
        LET known == job_id \in JobIds
            succeeded == known /\ jobs[job_id].state = "SUCCESS"
            failed == known /\ jobs[job_id].state = "FAILURE"
        IN /\ \/ reply'.form = "Current Status" /\ reply'.state = "PENDING"
              \/ reply'.form = "Current Status" /\ reply'.state = "STARTED"
              \/ reply'.form = "Finished"
              \/ reply'.form = "Failed"
           /\ (reply'.form = "Finished") = succeeded
           /\ (reply'.form = "Failed") = failed
           /\ succeeded =>
                /\ Len(reply'.text) <= 100
                /\ \A i \in 1..Len(reply'.text) : reply'.text[i] = jobs[job_id].text[i]
           /\ failed => reply'.exc = jobs[job_id].exc /\ reply'.exc # NoExc
    ]_vars

(* C25: a step in which check_job_status answers leaves every job as it    *)
(* is and submits none; the state, the result and the error of a job       *)
(* change only in a step of the worker that is running it, and a job is    *)
(* submitted only by a tool invocation that then waits for it.             *)
C25_PollingIsReadOnly ==
  [][ /\ (reply'.tool = "check_job_status" /\ reply' # reply) =>
           jobs' = jobs /\ call' = call
      /\ \A j \in JobIds :
           (\/ jobs'[j].state # jobs[j].state
            \/ jobs'[j].text # jobs[j].text
            \/ jobs'[j].exc # jobs[j].exc) =>
             /\ jobs[j].exec = "running"
             /\ reply' = reply
      /\ Len(jobs') # Len(jobs) =>
           /\ Len(jobs') = Len(jobs) + 1
           /\ call.phase = "idle" /\ call'.phase = "waiting"
           /\ call'.job = Len(jobs')
    ]_vars

C25_Witness ==
  /\ reply.tool = "check_job_status"
  /\ reply.form = "Finished"
  /\ reply.job = 1
  /\ jobs[1].state = "SUCCESS"
  /\ Len(jobs) = 2
  /\ jobs[2].state = "RETRY"

(* C26: at most one unit of heavy work is in execution at a time in a     *)
(* worker: never two transcript-fetch tasks and never two chat tasks, so   *)
(* a task queued behind a running one starts only after it has finished.   *)
C26_OneHeavyUnitAtATime ==
  /\ Cardinality({j \in JobIds : jobs[j].exec = "running"}) <= 1
  /\ Cardinality({t \in TaskIds : api.tasks[t].exec = "running"}) <= 1

(* C27: while an invocation of get_video_transcript or get_video_info is   *)
(* waiting for its job, the tool server can serve a check_job_status       *)
(* call.                                                                   *)
C27_WaitIsCooperative ==
  call.phase = "waiting" =>
    \E job_id \in 1..(MaxJobs + 1) : ENABLED CheckJobStatus(job_id)

(* C31: a tool that waited for a job which has failed by the end of the   *)
(* wait answers with a failure that states the reason of the job, not      *)
(* with the message that the video is still being processed.               *)
C31_FailedJobIsNotDeferred ==
  [][ \A tool \in Tools :
        (Answers(tool) /\ jobs[call.job].state = "FAILURE") =>
          /\ reply'.form \notin {"Deferred", "InfoError"}
          /\ reply'.exc = jobs[call.job].exc
    ]_vars

(* C33: an invocation with a valid URL sends exactly one new task, whose   *)
(* id is fresh, whatever jobs there are: the jobs sent before stay as      *)
(* they are, also an unfinished one for the same video.                    *)
C33_OneFreshJobPerInvocation ==
  [][ (call.phase = "idle" /\ call'.phase = "waiting") =>
        /\ extract_video_id(call'.video_url) # NoVideo
        /\ Len(jobs') = Len(jobs) + 1
        /\ call'.job = Len(jobs')
        /\ call'.job \notin JobIds
        /\ jobs'[call'.job] = NewJob(normalize_video_url(call'.video_url))
        /\ \A j \in JobIds : jobs'[j] = jobs[j]
    ]_vars

C33_Witness ==
  /\ Len(jobs) = 2
  /\ jobs[1].url = jobs[2].url
  /\ jobs[1].exec = "running"
  /\ jobs[2].exec = "running"
  /\ call.phase = "waiting" /\ call.job = 2

(* ===================== properties of the agent loop ==================== *)
(* The first generation returned text.                                     *)
Generated == turn.response # <<>>

(* What the parser makes of the first generation.                          *)
Parsed == parse_tool_calls(turn.impl, turn.response)

ErrorText(tool_name, e) ==
  [form |-> "Error: Could not execute", job |-> NoJob, tool |-> tool_name, exc |-> e]

AllSerialisable ==
  \A i \in 1..Len(turn.execution_results) :
    turn.execution_results[i].results.form # "Opaque"

(* C5: a turn that has ended has delivered either a text answer or a       *)
(* failure message that names the fault; no fault of the parse, of a tool  *)
(* execution, of the serialisation or of a generation is left unhandled,   *)
(* and a turn that has not ended can always go on.                         *)
C5_TurnAlwaysAnswers ==
  /\ turn.pc = "done" =>
       \/ turn.outcome.kind = "text" /\ turn.outcome.status = 200
       \/ /\ turn.outcome.kind = "failure"
          /\ turn.outcome.detail # NoExc
          /\ turn.outcome.status \in {200, 500}
  /\ (turn.pc = "done" /\ ~AllSerialisable) =>
       turn.outcome.kind = "failure" /\ turn.outcome.detail = "TypeError"
  /\ (turn.pc = "done" /\ Generated /\ Parsed.exc # NoExc) =>
       turn.outcome.kind = "failure" /\ turn.outcome.detail = Parsed.exc
  /\ turn.pc # "done" => ENABLED NextTurn

C5_Witness ==
  /\ turn.pc = "done"
  /\ turn.outcome.kind = "failure"
  /\ turn.outcome.detail = "TypeError"
  /\ Len(turn.executed) > 1

(* C6: the failure of an execution (unknown tool, the tool raised, the     *)
(* tool server unreachable) is recorded as the error text of that          *)
(* invocation; the invocations after it are executed all the same, the     *)
(* results are injected and the second generation is called.               *)
C6_ToolFailureIsAResult ==
  /\ \A i \in 1..Len(turn.executed) :
       LET x == turn.executed[i] IN
       x.outcome.raised =>
         /\ i <= Len(turn.execution_results)
         /\ turn.execution_results[i].results = ErrorText(x.name, x.outcome.exc)
  /\ turn.pc = "execute" => Len(turn.executed) < Len(turn.tool_calls)
  /\ (turn.pc \in {"inject", "regenerate"} \/ (turn.pc = "done" /\ turn.tool_calls # <<>>)) =>
       /\ Len(turn.executed) = Len(turn.tool_calls)
       /\ Len(turn.execution_results) = Len(turn.tool_calls)
  /\ turn.pc = "regenerate" =>
       LET content == turn.messages[Len(turn.messages)].content IN
       \A i \in 1..Len(turn.execution_results) :
         content[3 * i] = turn.execution_results[i]
  /\ (turn.pc = "done" /\ turn.tool_calls # <<>> /\ AllSerialisable) =>
       Len(turn.generations) = 2

C6_Witness ==
  /\ turn.pc = "done"
  /\ turn.outcome.kind = "text"
  /\ Len(turn.executed) = 2
  /\ turn.executed[1].outcome.exc = "Unknown tool"
  /\ ~turn.executed[2].outcome.raised

(* C8: when the parse of the first generation yields no invocation, the    *)
(* turn ends there: the answer is that text as generated, no tool was      *)
(* executed, no message was added to the composed ones and the generator   *)
(* was called once.                                                        *)
C8_NoCallsReturnsRawText ==
  (Generated /\ Parsed.exc = NoExc /\ Parsed.calls = <<>>) =>
    /\ turn.pc = "done"
    /\ turn.outcome = [kind |-> "text", status |-> 200,
                       text |-> turn.response, detail |-> NoExc]
    /\ turn.executed = <<>>
    /\ turn.execution_results = <<>>
    /\ Len(turn.generations) = 1
    /\ Len(turn.messages) = Len(turn.history) + 1
    /\ \A i \in 1..Len(turn.messages) : turn.messages[i].role # "tool"

C8_Witness ==
  /\ turn.pc = "done"
  /\ turn.outcome.kind = "text"
  /\ Len(turn.generations) = 1
  /\ \E i \in 1..Len(turn.response) : turn.response[i] = OPEN
  /\ turn.outcome.text[Len(turn.outcome.text)] = CLOSE

(* C9: the generator is called at most twice in a turn; a turn that ends   *)
(* with an answer has called it once when no invocation was parsed and     *)
(* twice otherwise; the calls made through the tool client are those of    *)
(* the first generation, whatever the second generation holds.             *)
C9_OneRegeneration ==
  /\ Len(turn.generations) <= 2
  /\ (turn.pc = "done" /\ turn.outcome.kind = "text") =>
       Len(turn.generations) = IF Parsed.calls = <<>> THEN 1 ELSE 2
  /\ Len(turn.executed) <= Len(Parsed.calls)
  /\ \A i \in 1..Len(turn.executed) :
       turn.executed[i].name = GetName(Parsed.calls[i])
  /\ turn.final_response # <<>> =>
       /\ turn.pc = "done"
       /\ Len(turn.executed) = Len(Parsed.calls)

C9_Witness ==
  /\ turn.pc = "done"
  /\ turn.outcome.kind = "text"
  /\ Len(turn.generations) = 2
  /\ Len(turn.executed) = 1
  /\ Len(FindAll(turn.final_response, 1)) = 3

(* C10: the i-th call made is the i-th parsed invocation, the i-th         *)
(* collected pair holds its name and what its execution gave, and the      *)
(* i-th tool response of the injected message is that pair; the parsed     *)
(* invocations are in the order of the text (when every span decodes and   *)
(* holds one name, the names are the names of the text in order).          *)
NamesInText(s) == SelectSeq(s, LAMBDA tok : tok \in NameTokens)

C10_OrderPreserved ==
  /\ Len(turn.execution_results) = Len(turn.executed)
  /\ \A i \in 1..Len(turn.executed) :
       LET x == turn.executed[i]
           pair == turn.execution_results[i]
       IN /\ x.name = GetName(turn.tool_calls[i])
          /\ x.arguments = GetArguments(turn.tool_calls[i])
          /\ pair.name = x.name
          /\ pair.results = IF x.outcome.raised
                            THEN ErrorText(x.name, x.outcome.exc)
                            ELSE x.outcome.data
  /\ turn.pc = "regenerate" =>
       LET content == turn.messages[Len(turn.messages)].content IN
       /\ Len(content) = 1 + 3 * Len(turn.tool_calls)
       /\ \A i \in 1..Len(turn.tool_calls) :
            /\ content[3 * i].name = GetName(turn.tool_calls[i])
            /\ content[3 * i].results = turn.execution_results[i].results
  /\ LET spans == FindAll(turn.response, 1)
         names == NamesInText(turn.response)
     IN (/\ turn.tool_calls # <<>>
         /\ Len(turn.tool_calls) = Len(spans)
         /\ Len(names) = Len(spans)
         /\ \A k \in 1..Len(spans) : Len(NamesInText(spans[k])) = 1) =>
          \A i \in 1..Len(turn.tool_calls) :
            GetName(turn.tool_calls[i]) = NameOf(names[i])

C10_Witness ==
  /\ turn.pc = "regenerate"
  /\ Len(turn.execution_results) = 3
  /\ turn.execution_results[1].name = "get_video_transcript"
  /\ turn.execution_results[2].name = "get_video_info"
  /\ turn.execution_results[3].name = "get_video_transcript"
  /\ turn.execution_results[1].results.form = "Deferred"
  /\ turn.execution_results[3].results.form = "Result"

(* C11: once the invocations of a turn are executed, one message is       *)
(* appended to the messages of the first generation: a user-role message   *)
(* that holds, after its header, every outcome in turn as a JSON object    *)
(* with the keys name and results between the tool_response delimiters;    *)
(* nothing is appended before that, and the second generation is handed    *)
(* the messages of the first followed by this one message.                 *)
C11_OneConsolidatedMessage ==
  /\ turn.pc \in {"execute", "inject"} => turn.messages = turn.generations[1]
  /\ (turn.pc = "regenerate" \/ Len(turn.generations) = 2) =>
       LET first == turn.generations[1]
           n == Len(turn.tool_calls)
           last == turn.messages[Len(turn.messages)]
       IN /\ Len(turn.messages) = Len(first) + 1
          /\ SubSeq(turn.messages, 1, Len(first)) = first
          /\ last.role = "user"
          /\ Len(last.content) = 1 + 3 * n
          /\ \A i \in 1..n :
               /\ last.content[3 * i - 1] = "<tool_response>"
               /\ DOMAIN last.content[3 * i] = {"name", "results"}
               /\ last.content[3 * i].name = turn.executed[i].name
               /\ last.content[3 * i].results = turn.execution_results[i].results
               /\ last.content[3 * i + 1] = "</tool_response>"
          /\ Len(turn.generations) = 2 => turn.generations[2] = turn.messages

C11_Witness ==
  /\ turn.pc = "done"
  /\ turn.outcome.kind = "text"
  /\ Len(turn.generations) = 2
  /\ Len(turn.generations[2]) = Len(turn.history) + 2
  /\ Len(turn.execution_results) = 3

(* C12: the answer of a turn that executed tools holds neither the         *)
(* opening nor the closing tool_call tag, whatever the second generation   *)
(* produced.                                                               *)
C12_NoResidualDelimiters ==
  (turn.pc = "done" /\ turn.outcome.kind = "text" /\ Len(turn.generations) = 2) =>
    \A i \in 1..Len(turn.outcome.text) : turn.outcome.text[i] \notin {OPEN, CLOSE}

(* The well-formed spans that the generated texts are built from, and the  *)
(* places of a text where one starts.                                      *)
KnownCalls == {TranscriptCall, InfoCall, StatusCall, UnknownCall}

WellFormedAt(s, i) ==
  \E c \in KnownCalls :
    i + Len(c) - 1 <= Len(s) /\ SubSeq(s, i, i + Len(c) - 1) = c

(* The parser returned (it did not raise) on the first generation.         *)
ParseReturned ==
  /\ Generated
  /\ ~(turn.pc = "done" /\ turn.outcome.kind = "failure" /\ Len(turn.generations) = 1)

(* C13: a well-formed span that follows a malformed span (an opening tag   *)
(* with a closing tag behind it, whose content is no JSON object, also     *)
(* for want of the closing brace) is among the parsed invocations.         *)
C13_MalformedSpanDoesNotAbort ==
  ParseReturned =>
    \A i \in 1..Len(turn.response) :
      (/\ WellFormedAt(turn.response, i)
       /\ \E j \in 1..(i - 1) :
            /\ turn.response[j] = OPEN
            /\ ~WellFormedAt(turn.response, j)
            /\ \E c \in (j + 1)..(i - 1) : turn.response[c] = CLOSE) =>
        \E k \in 1..Len(turn.tool_calls) :
          GetName(turn.tool_calls[k]) = NameOf(turn.response[i + 2])

(* The places of the opening tags of a text, in order.                     *)
OpenPositions(s) ==
  SelectSeq([i \in 1..Len(s) |-> i], LAMBDA i : s[i] = OPEN)

(* C14: for a text whose tool_call spans are all well formed, the parsed   *)
(* invocations are one per span in the order of the text, repeats          *)
(* included: for calls to A, B and A the list is [A, B, A].                *)
C14_OrderAndDuplicatesKept ==
  LET opens == OpenPositions(turn.response)
  IN (/\ ParseReturned
      /\ opens # <<>>
      /\ \A p \in 1..Len(opens) : WellFormedAt(turn.response, opens[p])) =>
       /\ Len(turn.tool_calls) = Len(opens)
       /\ \A p \in 1..Len(opens) :
            /\ GetName(turn.tool_calls[p]) = NameOf(turn.response[opens[p] + 2])
            /\ GetArguments(turn.tool_calls[p]) = <<turn.response[opens[p] + 6]>>

C14_Witness ==
  /\ Len(turn.tool_calls) = 3
  /\ GetName(turn.tool_calls[1]) = "get_video_transcript"
  /\ GetName(turn.tool_calls[2]) = "get_video_info"
  /\ GetName(turn.tool_calls[3]) = "get_video_transcript"
  /\ turn.tool_calls[1] = turn.tool_calls[3]

(* The repair of a span: a comma right before a closing brace is dropped.  *)
Repair(span) ==
  LET t == NoWs(span)
      keep == {i \in 1..Len(t) : ~(t[i] = "," /\ i < Len(t) /\ t[i + 1] = "}")}
  IN SelectSeq([i \in 1..Len(t) |-> IF i \in keep THEN t[i] ELSE WS],
               LAMBDA tok : tok # WS)

(* C15: every delimiter-bounded span that decodes, strictly or after the   *)
(* repair of a trailing comma, yields an invocation.                       *)
C15_RepairsBeforeDiscarding ==
  ParseReturned =>
    LET spans == FindAll(turn.response, 1)
    IN Len(turn.tool_calls) =
         Cardinality({k \in 1..Len(spans) : json_loads(Repair(spans[k])).ok})

(* The tools a composed prompt offers: what stands between its tools      *)
(* tags.                                                                   *)
OfferedTools(prompt) == SubSeq(prompt, 3, Len(prompt) - 2)

(* C22: when the listing of the tools raises, at whatever point, the       *)
(* worker's turn goes on to the generation with a prompt that offers no    *)
(* tool (never a part of the tools, never a failed turn); when it does     *)
(* not raise the prompt offers every tool of the tool server.              *)
C22_DiscoveryFailureOffersNoTools ==
  /\ turn.discovery = "failed" =>
       /\ turn.impl = "worker"
       /\ turn.pc # "start"
       /\ turn.messages[1].role = "system"
       /\ OfferedTools(turn.messages[1].content) = <<>>
       /\ turn.generations # <<>> =>
            OfferedTools(turn.generations[1][1].content) = <<>>
       /\ turn.pc = "done" => turn.generations # <<>>
  /\ turn.discovery = "listed" =>
       OfferedTools(turn.messages[1].content) = ServerTools

C22_Witness ==
  /\ turn.discovery = "failed"
  /\ turn.pc = "done"
  /\ turn.outcome.kind = "text"
  /\ Len(turn.generations) = 2

(* C34: the parse_tool_calls of the standalone server and the one of the  *)
(* worker return the same calls for the generated text, and neither        *)
(* raises.                                                                 *)
C34_ParsersAreEquivalent ==
  Generated =>
    /\ parse_tool_calls("server", turn.response) = parse_tool_calls("worker", turn.response)
    /\ parse_tool_calls("server", turn.response).exc = NoExc
    /\ parse_tool_calls("worker", turn.response).exc = NoExc

(* C35: the standalone server rejects a request that names another model  *)
(* than youtube-agent or youtube-agent:latest with status 400 and the      *)
(* detail of the model that was not found; nothing is generated and no     *)
(* tool is executed for it.                                                *)
C35_UnknownModelIsRejected ==
  (turn.impl = "server" /\ turn.model \notin {"youtube-agent", "youtube-agent:latest"}) =>
    /\ turn.pc \in {"start", "done"}
    /\ turn.generations = <<>> /\ turn.executed = <<>>
    /\ turn.pc = "done" =>
         /\ turn.outcome.kind = "failure"
         /\ turn.outcome.status = 400
         /\ turn.outcome.detail = "HTTPException 400"

(* C38: the prompt of a turn is the system message of the tool            *)
(* instructions followed by the history of the conversation, in order;     *)
(* the turn leaves the conversation as it is, the message of the tool      *)
(* results is in the messages of the turn only.                            *)
C38_TurnLeavesConversation ==
  [][ /\ turn'.history = turn.history
      /\ turn'.messages # <<>> =>
           LET n == Len(turn'.history)
           IN /\ turn'.messages[1].role = "system"
              /\ turn'.messages[1].content =
                   format_tools_prompt(OfferedTools(turn'.messages[1].content))
              /\ Len(turn'.messages) \in {n + 1, n + 2}
              /\ SubSeq(turn'.messages, 2, n + 1) = turn'.history
              /\ turn'.generations # <<>> => turn'.generations[1] = SubSeq(turn'.messages, 1, n + 1)
              /\ Len(turn'.messages) = n + 2 =>
                   /\ turn'.messages[n + 2].role = "user"
                   /\ turn'.messages[n + 2].content =
                        tool_results_text(turn'.execution_results)
    ]_vars

C38_Witness ==
  /\ turn.pc = "done"
  /\ turn.outcome.kind = "text"
  /\ Len(turn.history) = 4
  /\ Len(turn.messages) = 6
  /\ Len(turn.execution_results) = 3

(* ================= properties of the conversation manager ============== *)
Live(id) == contexts[id] # NoContext

NonSystem(messages) == SelectSeq(messages, NotSystem)

Systems(messages) == SelectSeq(messages, IsSystem)

C18_HistoryInAdditionOrder ==
  \A id \in ConvIds : Live(id) =>
    LET history == get_messages_for_model(contexts[id])
    IN \A i, j \in 1..Len(history) :
         i < j => history[i].content < history[j].content

(* C19: every tool-role message held in a conversation, and every message  *)
(* made by create_tool_response_message, carries a tool name.              *)
C19_ToolMessagesAreNamed ==
  /\ \A id \in ConvIds : Live(id) =>
       \A i \in 1..Len(contexts[id].messages) :
         contexts[id].messages[i].role = "tool" =>
           contexts[id].messages[i].name # Absent
  /\ made.role = "tool" => made.name # Absent

(* C20: a step that adds a message to the conversation of one id, or sets  *)
(* its video, leaves the messages, the video URL and the transcript of     *)
(* the conversation of every other id as they were.                        *)
C20_ConversationsAreIndependent ==
  [][ \A id \in ConvIds :
        (Live(id) /\ contexts'[id] # NoContext /\ contexts'[id] # contexts[id]) =>
          \A other \in ConvIds \ {id} :
            /\ contexts'[other] = contexts[other]
            /\ added'[other] = added[other]
    ]_vars

C20_Witness ==
  /\ Live("c1") /\ Live("c2")
  /\ contexts["c1"].current_video_url = "u1"
  /\ contexts["c1"].video_transcript = "t1"
  /\ contexts["c2"].current_video_url = Absent
  /\ Len(contexts["c1"].messages) = 2
  /\ Len(contexts["c2"].messages) = 2
  /\ contexts["c2"].messages[2].role = "user"

(* C21: get_or_create_conversation on an id without a context stores,      *)
(* under that id, a context that holds one message, of role system, and    *)
(* on an id with a context leaves the context as it is; either way it      *)
(* returns the context of the id.  delete_conversation returns True        *)
(* exactly when the id had a context; after it get_conversation finds      *)
(* nothing for the id and list_conversations does not list it.             *)
C21_ConversationLifecycle ==
  [][ \A id \in ConvIds :
        /\ (/\ returned' = ContextOf("get_or_create_conversation", id)
            /\ (returned' # returned \/ contexts' # contexts)) =>
             /\ IF contexts[id] = NoContext
                THEN /\ contexts'[id].conversation_id = id
                     /\ Len(contexts'[id].messages) = 1
                     /\ contexts'[id].messages[1].role = "system"
                ELSE /\ contexts'[id] = contexts[id]
                     /\ added'[id] = added[id]
             /\ id \in list_conversations'
        /\ (/\ returned'.op = "delete_conversation" /\ returned'.id = id
            /\ (returned' # returned \/ contexts' # contexts)) =>
             /\ returned'.value = (contexts[id] # NoContext)
             /\ get_conversation(id)' = NoContext
             /\ id \notin list_conversations'
             /\ \A other \in ConvIds \ {id} : contexts'[other] = contexts[other]
    ]_vars

C21_Witness ==
  /\ returned = ContextOf("get_or_create_conversation", "c1")
  /\ Len(contexts["c1"].messages) = 3
  /\ contexts["c2"] = NoContext
  /\ added["c1"][3].role = "user"

(* ========== properties of the async API and of the tool registry ======= *)
(* C28: a chat request that is waiting for its task between two polls      *)
(* does not hold the event loop of the API; the loop is held only by a     *)
(* handler that is running a poll, and when it is free the health          *)
(* endpoint and a new chat request are served, however many chat requests  *)
(* are waiting.                                                            *)
C28_ApiNeverBlocked ==
  /\ \A h \in HandlerIds : api.handlers[h].pc = "sleep" => api.loop # h
  /\ api.loop # Free => api.handlers[api.loop].pc = "poll"
  /\ (api.loop = Free /\ Len(api.handlers) < MaxRequests) =>
       ENABLED HealthCheck /\ ENABLED Chat

C28_Witness ==
  /\ Len(api.handlers) = 3
  /\ api.handlers[1].pc = "sleep" /\ api.tasks[api.handlers[1].task].state = "STARTED"
  /\ api.handlers[2].pc = "sleep" /\ api.tasks[api.handlers[2].task].state = "PENDING"
  /\ api.handlers[3].kind = "health" /\ api.handlers[3].status = 200

(* C29: get_tools never lists two tools of the same name, and a tool that  *)
(* is listed stays listed as it is when another tool is registered.        *)
C29_ToolNamesUnique ==
  [][ /\ \A i, j \in 1..Len(get_tools') :
           get_tools'[i].function.name = get_tools'[j].function.name => i = j
      /\ \A i \in 1..Len(get_tools) :
           \E j \in 1..Len(get_tools') : get_tools'[j] = get_tools[i]
    ]_vars

(* ======== properties of the agent loop through the tool server ========= *)
(* C30: every turn ends: the wait for the job of an invocation never       *)
(* lasts longer than the wait budget, and the turn reaches its outcome,    *)
(* whatever becomes of the jobs.                                           *)
C30_EveryTurnTerminates ==
  /\ [](call.phase = "waiting" => call.elapsed <= DefaultTimeout)
  /\ <>(turn.pc = "done")

C30_Witness ==
  /\ turn.pc = "done"
  /\ turn.outcome.kind = "text"
  /\ Len(turn.executed) = 3
  /\ Len(jobs) = 2
  /\ jobs[1].exec = "queued"
  /\ jobs[2].state = "FAILURE"

(* C32: a call of get_video_transcript or get_video_info whose video_url   *)
(* holds no video id sends no task: the tool raises (it answers neither    *)
(* with a result nor with a deferred message), and the pair collected for  *)
(* the call holds an error text.                                           *)
InvalidUrlCall(tool_call) ==
  /\ GetName(tool_call) \in Tools
  /\ extract_video_id(UrlOf(GetArguments(tool_call))) = NoVideo

C32_InvalidUrlSubmitsNoJob ==
  [][ /\ (turn.pc = "execute" /\ InvalidUrlCall(turn.tool_calls[NextCall]))
        => /\ call.phase = "idle" /\ call' = call
           /\ Len(jobs') = Len(jobs)
           /\ (reply' # reply /\ turn' = turn) =>
                /\ jobs' = jobs
                /\ reply'.form = "Raised" /\ reply'.exc = "ValueError"
                /\ reply'.job = NoJob
      /\ \A i \in 1..Len(turn'.executed) :
           (turn'.executed[i].name \in Tools
            /\ extract_video_id(UrlOf(turn'.executed[i].arguments)) = NoVideo)
           => /\ turn'.executed[i].outcome.raised
              /\ turn'.execution_results[i].results.form = "Error: Could not execute"
    ]_vars

C32_Witness ==
  /\ turn.pc = "done"
  /\ turn.outcome.kind = "text"
  /\ Len(turn.executed) = 1
  /\ turn.executed[1].name = "get_video_info"
  /\ turn.executed[1].outcome.exc = "ToolError"
  /\ turn.execution_results[1].results.form = "Error: Could not execute"
  /\ jobs = <<>>

(* C36: a chat handler of the async API leaves its loop only for a task    *)
(* that is ready, and it does leave it once the task is ready; the         *)
(* response holds the result of a successful task and has status 500 for   *)
(* a failed one.                                                           *)
ChatDone(h) ==
  h \in HandlerIds /\ api.handlers[h].kind = "chat" /\ api.handlers[h].pc = "done"

C36_ReturnsIffTaskFinishes ==
  /\ [](\A h \in HandlerIds : ChatDone(h) =>
          LET task == api.tasks[api.handlers[h].task]
          IN /\ task.state \in READY_STATES
             /\ task.state = "SUCCESS" =>
                  api.handlers[h].status = 200 /\ api.handlers[h].content = task.result
             /\ task.state = "FAILURE" =>
                  api.handlers[h].status = 500 /\ api.handlers[h].content \notin ChatResults)
  /\ \A h \in 1..MaxRequests :
       [](( /\ h \in HandlerIds
            /\ api.handlers[h].kind = "chat"
            /\ api.tasks[api.handlers[h].task].state \in READY_STATES )
          => <>ChatDone(h))

C36_Witness ==
  /\ Len(api.handlers) = 3
  /\ ChatDone(1) /\ api.handlers[1].status = 500
  /\ ChatDone(2) /\ api.handlers[2].status = 200
  /\ api.handlers[3].pc = "sleep" /\ api.tasks[api.handlers[3].task].state = "PENDING"

(* ================= properties of the interactive client ================ *)
(* C37: a send_message that fails leaves the history as it was before the  *)
(* call, one that succeeds appends the user message and then the reply of  *)
(* the assistant; start_new_session leaves no history and no conversation  *)
(* id.                                                                     *)
C37_HistoryOnlyGrowsOnSuccess ==
  [][ /\ client'.sends # client.sends =>
           IF client'.last.response = "200"
           THEN client'.message_history = client.message_history \o
                  << [role |-> "user", content |-> client'.last.message],
                     [role |-> "assistant", content |-> client'.last.value] >>
           ELSE /\ client'.message_history = client.message_history
                /\ client'.last.value = None
      /\ (client'.sends = client.sends /\ client' # client) =>
           /\ client'.message_history = <<>>
           /\ client'.conversation_id = None
    ]_vars

C37_Witness ==
  /\ client.sends = 3
  /\ client.last.response = "Timeout"
  /\ Len(client.message_history) = 2
  /\ client.message_history[2].role = "assistant"
  /\ client.conversation_id = "session 1"

(* C39: the tool calls of a turn run one after another: a call starts      *)
(* only when the turn is in its for loop and the call before it has        *)
(* returned, the number of calls started is at most one more than the      *)
(* number of results collected, and no generation starts while a call is   *)
(* in flight.                                                              *)
InFlight == call.phase = "waiting" \/ reply # NoReply

C39_OneCallInFlight ==
  [][ /\ (~InFlight /\ InFlight') =>
           /\ turn.pc = "execute" /\ turn' = turn
           /\ Len(turn.executed) = Len(turn.execution_results)
           /\ Len(turn.executed) < Len(turn.tool_calls)
      /\ InFlight' => turn'.pc = "execute"
      /\ (InFlight /\ turn' # turn) =>
           /\ call.phase = "idle" /\ ~InFlight'
           /\ Len(turn'.execution_results) = Len(turn.execution_results) + 1
      /\ turn'.generations # turn.generations => ~InFlight /\ ~InFlight'
    ]_vars

C39_Witness ==
  /\ turn.pc = "execute"
  /\ Len(turn.tool_calls) = 3
  /\ Len(turn.execution_results) = 2
  /\ call.phase = "waiting" /\ call.job = 2
  /\ jobs[1].exec = "running"

(* ================ properties of the video of a conversation ============ *)
(* C40: the transcript that a conversation holds is the one of its         *)
(* current video, or there is none.                                        *)
C40_TranscriptBelongsToVideo ==
  \A id \in ConvIds :
    Live(id) =>
      contexts[id].video_transcript \in
        {Absent, TranscriptOf(contexts[id].current_video_url)}

====
